---- MODULE Spec2Model ----
(***************************************************************************)
(* A model of the TPA session runtime: TpaSession (connection lifecycle,   *)
(* send, subscriptions, inbound dispatch) and EventManager (handler        *)
(* registry and emit with error isolation).                                *)
(*                                                                         *)
(* Every operation of the code is one action.  The body of an operation    *)
(* is written as a composition of operators over a record `r` holding the  *)
(* session's fields (Cur), so that nested calls (send inside               *)
(* updateSubscriptions inside handleMessage, emit inside send, ...) are    *)
(* part of the action that makes them.  An exception in flight is the      *)
(* field r.exc; try/catch is an IF on it.                                  *)
(***************************************************************************)
EXTENDS Integers, Sequences, FiniteSets, TLC

\* ---------------------------------------------------------------- bounds
\* connect() calls made over a behaviour (owner and reconnection together)
MaxAttempts == 2

\* ------------------------------------------------------- program constants
\* WebSocket.readyState values, as named by send()'s stateMap
CONNECTING == 0
OPEN == 1
CLOSING == 2
CLOSED == 3
\* maxReconnectAttempts || 5
DefaultMaxReconnectAttempts == 5
\* reconnectDelay: 1000 (constructor default)
DefaultReconnectDelay == 1000

ReadyStates == {CONNECTING, OPEN, CLOSING, CLOSED}

\* stateMap[readyState] || 'UNKNOWN'
StateName(rs) ==
    CASE rs = CONNECTING -> "CONNECTING"
      [] rs = OPEN -> "OPEN"
      [] rs = CLOSING -> "CLOSING"
      [] rs = CLOSED -> "CLOSED"
      [] OTHER -> "UNKNOWN"

\* null / undefined
Null == "null"
\* a value that may be undefined: <<>> for undefined, <<v>> for v
Undefined == <<>>
Some(v) == << v >>
NoWs == 0
NoErr == "none"

\* stream tags (StreamType) the model ranges over
Tags == {"head_position", "audio_chunk"}
\* system events (SystemEvents)
SystemEvents == {"connected", "disconnected", "error", "settings_update"}

SessionIds == {"s1"}

\* AppSettings values carried by messages
S_none == <<>>
S_mode1 == <<[key |-> "mode", value |-> 1]>>
S_mode2 == <<[key |-> "mode", value |-> 2]>>
SettingsChoices == {S_none, S_mode1, S_mode2}

\* TpaConfig documents: a group entry and one declared setting with a default
ValidConfig ==
    [name |-> "cfg", valid |-> TRUE,
     settings |-> << [type |-> "group", key |-> "", defaultValue |-> 0],
                     [type |-> "toggle", key |-> "mode", defaultValue |-> 1] >>]
InvalidConfig == [name |-> "bad", valid |-> FALSE, settings |-> <<>>]
NoConfig == [name |-> Null, valid |-> FALSE, settings |-> <<>>]
ConfigDocs == {NoConfig, ValidConfig, InvalidConfig}

\* session configurations (TpaSessionConfig after the constructor's defaults)
ConfigChoices ==
    { [augmentOSWebsocketUrl |-> TRUE, autoReconnect |-> FALSE,
        maxReconnectAttempts |-> 0, reconnectDelay |-> DefaultReconnectDelay],
      [augmentOSWebsocketUrl |-> FALSE, autoReconnect |-> FALSE,
        maxReconnectAttempts |-> 0, reconnectDelay |-> DefaultReconnectDelay],
      [augmentOSWebsocketUrl |-> TRUE, autoReconnect |-> TRUE,
        maxReconnectAttempts |-> 0, reconnectDelay |-> DefaultReconnectDelay] }

VARIABLES
    config,             \* TpaSession.config
    ws,                 \* TpaSession.ws: index into sockets, NoWs for null
    sessionId,          \* TpaSession.sessionId
    reconnectAttempts,  \* TpaSession.reconnectAttempts
    subscriptions,      \* TpaSession.subscriptions
    settings,           \* TpaSession.settings
    tpaConfig,          \* TpaSession.tpaConfig
    shouldUpdateSubscriptionsOnSettingsChange,
    subscriptionSettingsHandler,
    subscriptionUpdateTriggers,
    handlers,           \* EventManager.handlers: tag -> handlers in insertion order
    emitter,            \* EventManager.emitter: system event -> listeners in order
    sockets,            \* every WebSocket this session's connects obtained
    attempts,           \* every connect() call: its promise, upgrade request, timeout
    reconnectTimers,    \* backoff waits armed by handleReconnection, not yet elapsed
    previousValue,      \* onSettingChange: the closure's previousValue
    settingCalls,       \* the calls of onSettingChange's callback in the last operation
    delivered,          \* the last value onSettingChange's callback was called with
    activeSessions,     \* Handler.activeSessions: session id -> session
    webhook,            \* the session-start request in progress, if any
    response,           \* the last response of the Handler
    sendLog,            \* the send() calls of the last operation
    emitted,            \* the emitter.emit calls of the last operation
    invoked,            \* the listeners and handlers called in the last operation
    lastOp              \* the last operation, its arguments and its outcome

vars == << config, ws, sessionId, reconnectAttempts, subscriptions, settings,
           tpaConfig, shouldUpdateSubscriptionsOnSettingsChange,
           subscriptionSettingsHandler, subscriptionUpdateTriggers, handlers,
           emitter, sockets, attempts, reconnectTimers, previousValue,
           settingCalls, delivered, activeSessions, webhook, response,
           sendLog, emitted, invoked, lastOp >>

\* The state at the start of an operation, as one record; the logs of the
\* previous operation are dropped.
Cur ==
    [ config |-> config, ws |-> ws, sessionId |-> sessionId,
      reconnectAttempts |-> reconnectAttempts, subscriptions |-> subscriptions,
      settings |-> settings, tpaConfig |-> tpaConfig,
      should |-> shouldUpdateSubscriptionsOnSettingsChange,
      subscriptionSettingsHandler |-> subscriptionSettingsHandler,
      subscriptionUpdateTriggers |-> subscriptionUpdateTriggers,
      handlers |-> handlers, emitter |-> emitter, sockets |-> sockets,
      attempts |-> attempts, reconnectTimers |-> reconnectTimers,
      previousValue |-> previousValue, settingCalls |-> <<>>,
      delivered |-> delivered,
      activeSessions |-> activeSessions, webhook |-> webhook,
      response |-> response,
      sendLog |-> <<>>, emitted |-> <<>>, invoked |-> <<>>,
      exc |-> NoErr, escaped |-> FALSE, xmit |-> 0, subscribeCalls |-> 0,
      closeCalls |-> 0 ]

\* The state an operation leaves, with the record of the operation.
Commit(r, op) ==
    \E x \in {r} :
        /\ config' = x.config
        /\ ws' = x.ws
        /\ sessionId' = x.sessionId
        /\ reconnectAttempts' = x.reconnectAttempts
        /\ subscriptions' = x.subscriptions
        /\ settings' = x.settings
        /\ tpaConfig' = x.tpaConfig
        /\ shouldUpdateSubscriptionsOnSettingsChange' = x.should
        /\ subscriptionSettingsHandler' = x.subscriptionSettingsHandler
        /\ subscriptionUpdateTriggers' = x.subscriptionUpdateTriggers
        /\ handlers' = x.handlers
        /\ emitter' = x.emitter
        /\ sockets' = x.sockets
        /\ attempts' = x.attempts
        /\ reconnectTimers' = x.reconnectTimers
        /\ previousValue' = x.previousValue
        /\ settingCalls' = x.settingCalls
        /\ delivered' = x.delivered
        /\ activeSessions' = x.activeSessions
        /\ webhook' = x.webhook
        /\ response' = x.response
        /\ sendLog' = x.sendLog
        /\ emitted' = x.emitted
        /\ invoked' = x.invoked
        /\ lastOp' = [op EXCEPT !.threw = x.exc, !.escaped = x.escaped,
                                !.subscribeCalls = x.subscribeCalls,
                            !.closeCalls = x.closeCalls]

\* The record of an operation: its name, the attempt / socket / handler and
\* the tag it is about, a number `pre` read before it ran, and (filled in by
\* Commit) what it raised to its caller, whether an emit raised, and how often
\* it called subscribe() and WebSocket.close().
Op(name, a, tag, pre) ==
    [op |-> name, a |-> a, tag |-> tag, pre |-> pre, threw |-> NoErr,
     escaped |-> FALSE, subscribeCalls |-> 0, closeCalls |-> 0]

\* Map.delete(key) and Map.set(key, value) on a map kept as a function
MapDelete(m, key) == [k \in DOMAIN m \ {key} |-> m[k]]
MapSet(m, key, value) ==
    [k \in DOMAIN m \cup {key} |-> IF k = key THEN value ELSE m[k]]

\* ------------------------------------------------- control flow
\* r, then the steps K that follow it
Then(r, K(_)) == K(r)
\* the rest of a try block: skipped while an exception is in flight
IfOk(r, K(_)) == IF r.exc = NoErr THEN K(r) ELSE r
\* catch (error) { K }: entered when an exception is in flight
Catch(r, K(_)) == IF r.exc = NoErr THEN r ELSE K([r EXCEPT !.exc = NoErr])

\* ------------------------------------------------------------ promises
\* resolve() of connect attempt a's promise; a promise settles once.  The
\* continuation of handleReconnection's `await this.connect(...)` resets the
\* attempt counter.
Resolve(r, a) ==
    IF r.attempts[a].promise # "pending" THEN r
    ELSE [r EXCEPT !.attempts[a].promise = "resolved",
                   !.reconnectAttempts =
                       IF r.attempts[a].by = "reconnect" THEN 0 ELSE @]

\* clearTimeout(connectionTimeout) of attempt a
ClearTimer(r, a) ==
    IF r.attempts[a].timer = "armed"
    THEN [r EXCEPT !.attempts[a].timer = "cleared"]
    ELSE r

\* ------------------------------------------------------- settings
\* settings.find(s => s.key === key)
HasSetting(S, key) == \E i \in 1..Len(S) : S[i].key = key
\* settings.find(s => s.key === key).value
SettingValue(S, key) ==
    S[CHOOSE i \in 1..Len(S) : S[i].key = key /\ \A j \in 1..(i - 1) : S[j].key # key].value

\* the setting key the model watches with onSettingChange
WatchedKey == "mode"

\* onSettingChange's settingsHandler: the callback is called when the key is
\* present with a value other than previousValue; previousValue is assigned
\* after the callback returned.  The callback may throw (listener l.a = 2),
\* which the handler's try/catch logs.
SettingsHandler(r, l, S) ==
    IF ~HasSetting(S, WatchedKey) \/ Some(SettingValue(S, WatchedKey)) = r.previousValue
    THEN r
    ELSE LET r1 == [r EXCEPT
                      !.settingCalls =
                          Append(@, [value |-> Some(SettingValue(S, WatchedKey)),
                                     previous |-> r.previousValue]),
                      !.delivered = Some(SettingValue(S, WatchedKey))]
         IN IF l.a = 2 THEN r1
            ELSE [r1 EXCEPT !.previousValue = Some(SettingValue(S, WatchedKey))]

\* ------------------------------------------------- node:events EventEmitter
\* What one listener does when called.  The listeners connect() installs:
\*   "resolve": () => resolve()
\*   "clear":   () => { clearTimeout(connectionTimeout); resolve(); }
\* "settingChange" is onSettingChange's settingsHandler.
\* "untrack" is the Handler's onDisconnected listener:
\*   () => { this.activeSessions.delete(sessionId) }
\* A user listener has no effect on the session; it may throw.
ApplyListener(r, ev, l, payload) ==
    LET r0 == [r EXCEPT !.invoked = Append(@, [tag |-> ev, k |-> l.k, a |-> l.a])]
    IN CASE l.k = "resolve" -> Resolve(r0, l.a)
         [] l.k = "clear" -> Resolve(ClearTimer(r0, l.a), l.a)
         [] l.k = "settingChange" -> SettingsHandler(r0, l, payload)
         [] l.k = "untrack" ->
              [r0 EXCEPT !.activeSessions = MapDelete(@, r0.webhook.sid)]
         [] OTHER -> r0

\* The listeners are called in registration order; the first one that throws
\* ends the emission and its exception propagates to the caller of emit.
RECURSIVE CallListeners(_, _, _, _, _)
CallListeners(r, ev, L, i, payload) ==
    IF i > Len(L) THEN r
    ELSE Then(ApplyListener(r, ev, L[i], payload),
              LAMBDA r1 : IF L[i].throws THEN [r1 EXCEPT !.exc = "listener threw"]
                          ELSE CallListeners(r1, ev, L, i + 1, payload))

\* EventEmitter.emit(ev, payload): an 'error' event with no listener throws.
EmitterEmit(r, ev, payload) ==
    LET L == IF ev \in DOMAIN r.emitter THEN r.emitter[ev] ELSE <<>>
        r0 == [r EXCEPT !.emitted = Append(@, [tag |-> ev, payload |-> payload])]
    IN IF ev = "error" /\ L = <<>>
       THEN [r0 EXCEPT !.exc = "unhandled error"]
       ELSE CallListeners(r0, ev, L, 1, payload)

\* ------------------------------------------------------ EventManager.emit
\* handlersArray.forEach(handler => { try { handler(data) } catch { ... } })
\* The catch block emits an 'error' event through the emitter, outside any
\* try of its own: if that emission throws, forEach is left.
CallHandler(r, ev, h) ==
    LET r1 == [r EXCEPT !.invoked =
                   Append(@, [tag |-> ev, k |-> "handler", a |-> h.id])]
    IN IF ~h.throws \/ ev = "error" THEN r1
       ELSE EmitterEmit(r1, "error", "Handler error")

RECURSIVE RunHandlers(_, _, _, _)
RunHandlers(r, ev, H, i) ==
    IF i > Len(H) THEN r
    ELSE IfOk(CallHandler(r, ev, H[i]),
              LAMBDA r2 : RunHandlers(r2, ev, H, i + 1))

\* The body of emit's outer try.
EmitBody(r, ev, payload) ==
    IfOk(EmitterEmit(r, ev, payload),
         LAMBDA r1 : IF ev \in DOMAIN r1.handlers
                     THEN RunHandlers(r1, ev, r1.handlers[ev], 1)
                     ELSE r1)

\* a try { ... } catch { console.error(...) } around r: nothing leaves it
Swallow(r) == [r EXCEPT !.exc = NoErr]

\* emit's outer catch without the nested try/catch: the variant that
\* EmitNeverThrows tells apart from the code
EmitCatchBare(r, ev) ==
    IF ev = "error" THEN r
    ELSE EmitterEmit(r, "error", "Event emission error")

\* emit's outer catch: for a tag other than 'error', one more 'error'
\* emission inside a nested try/catch that only logs.
EmitCatch(r, ev) ==
    IF ev = "error" THEN r
    ELSE Swallow(EmitterEmit(r, "error", "Event emission error"))

\* The return of emit: r.escaped records an exception that leaves emit; the
\* caller's code then goes on as the code does after a call that returned.
EmitReturn(r) == [r EXCEPT !.escaped = @ \/ (r.exc # NoErr), !.exc = NoErr]

\* EventManager.emit(ev, payload)
Emit(r, ev, payload) ==
    EmitReturn(Catch(EmitBody(r, ev, payload), LAMBDA e : EmitCatch(e, ev)))

\* a rejection after which the reconnection logic starts counting anew:
\* the variant that FailedReconnectKeepsCount tells apart from the code
RejectResetsCount(r, a, reason) ==
    IF r.attempts[a].promise # "pending" THEN r
    ELSE LET r1 == [r EXCEPT !.attempts[a].promise = "rejected",
                             !.attempts[a].reason = reason]
         IN IF r.attempts[a].by = "reconnect"
            THEN Emit([r1 EXCEPT !.reconnectAttempts = 0], "error", "Reconnection failed")
            ELSE r1

\* reject(error) of connect attempt a's promise.  When the attempt was made
\* by handleReconnection, its catch emits 'Reconnection failed'.
Reject(r, a, reason) ==
    IF r.attempts[a].promise # "pending" THEN r
    ELSE LET r1 == [r EXCEPT !.attempts[a].promise = "rejected",
                             !.attempts[a].reason = reason]
         IN IF r.attempts[a].by = "reconnect"
            THEN Emit(r1, "error", "Reconnection failed")
            ELSE r1

\* ---------------------------------------------------------------- send
\* Outbound messages.  shape is what send() validates: "ok", "notObject"
\* (not an object) or "noType" (no `type` property).
InitMessage(r) ==
    [type |-> "CONNECTION_INIT", shape |-> "ok", sessionId |-> r.sessionId,
     subscriptions |-> {}]
SubscriptionUpdate(r) ==
    [type |-> "SUBSCRIPTION_UPDATE", shape |-> "ok", sessionId |-> r.sessionId,
     subscriptions |-> r.subscriptions]
LayoutMessage(shape) ==
    [type |-> "display_event", shape |-> shape, sessionId |-> Null,
     subscriptions |-> {}]

\* send() without its readyState check: the variant that SendsOnlyWhenOpen
\* tells apart from the code
SendErrorAnyState(r, msg, F) ==
    IF r.ws = NoWs THEN "WebSocket connection not established"
    ELSE IF msg.shape = "notObject" THEN "Invalid message: must be an object"
    ELSE IF msg.shape = "noType" THEN "Invalid message: missing type"
    ELSE IF (r.xmit + 1) \in F THEN "Failed to send message"
    ELSE NoErr

\* The error send() throws for message msg in state r, NoErr when it
\* transmits.  F is the set of ws.send calls of this operation (counted from
\* 1) that the platform fails.
SendError(r, msg, F) ==
    IF r.ws = NoWs THEN "WebSocket connection not established"
    ELSE IF r.sockets[r.ws].readyState # OPEN
         THEN "WebSocket not connected: " \o StateName(r.sockets[r.ws].readyState)
    ELSE IF msg.shape = "notObject" THEN "Invalid message: must be an object"
    ELSE IF msg.shape = "noType" THEN "Invalid message: missing type"
    ELSE IF (r.xmit + 1) \in F THEN "Failed to send message"
    ELSE NoErr

\* Whether send() reaches ws.send(serializedMessage).
ReachesTransmit(r, msg) ==
    /\ r.ws # NoWs
    /\ r.sockets[r.ws].readyState = OPEN
    /\ msg.shape = "ok"

\* a send() that throws without emitting: the variant that
\* SendFailureEmitsOnce tells apart from the code
SendNoEmit(r, msg, F) ==
    LET err == SendError(r, msg, F)
        call == [msg |-> msg, ws |-> r.ws,
                 readyState |-> IF r.ws = NoWs THEN -1 ELSE r.sockets[r.ws].readyState,
                 error |-> err, transmitted |-> (err = NoErr)]
    IN [r EXCEPT !.sendLog = Append(@, call),
                 !.xmit = IF ReachesTransmit(r, msg) THEN @ + 1 ELSE @,
                 !.exc = err]

\* TpaSession.send(message): on any failure, emit 'error' and re-throw.
Send(r, msg, F) ==
    LET err == SendError(r, msg, F)
        call == [msg |-> msg, ws |-> r.ws,
                 readyState |-> IF r.ws = NoWs THEN -1 ELSE r.sockets[r.ws].readyState,
                 error |-> err, transmitted |-> (err = NoErr),
                 subscriptions |-> r.subscriptions, emitted |-> Len(r.emitted)]
        r1 == [r EXCEPT !.sendLog = Append(@, call),
                        !.xmit = IF ReachesTransmit(r, msg) THEN @ + 1 ELSE @]
    IN IF err = NoErr THEN r1
       ELSE [Emit(r1, "error", err) EXCEPT !.exc = err]

\* TpaSession.sendConnectionInit / updateSubscriptions
SendConnectionInit(r, F) == Send(r, InitMessage(r), F)
UpdateSubscriptions(r, F) == Send(r, SubscriptionUpdate(r), F)

\* a subscribe that pushes only the added tag: the variant that
\* SubscribePushesWholeSet tells apart from the code
SubscribeSendsDelta(r, type, F) ==
    LET r1 == [r EXCEPT !.subscriptions = @ \cup {type},
                        !.subscribeCalls = @ + 1]
    IN IF r1.ws # NoWs /\ r1.sockets[r1.ws].readyState = OPEN
       THEN Send(r1, [SubscriptionUpdate(r1) EXCEPT !.subscriptions = {type}], F)
       ELSE r1

\* TpaSession.subscribe(type)
Subscribe(r, type, F) ==
    LET r1 == [r EXCEPT !.subscriptions = @ \cup {type},
                        !.subscribeCalls = @ + 1]
    IN IF r1.ws # NoWs /\ r1.sockets[r1.ws].readyState = OPEN
       THEN UpdateSubscriptions(r1, F)
       ELSE r1

\* ------------------------------------------------------- EventManager
\* stream handlers and user listeners the model registers
H_ok == [id |-> 1, throws |-> FALSE]
H_throws == [id |-> 2, throws |-> TRUE]
H_ok2 == [id |-> 3, throws |-> FALSE]
Handlers == {H_ok, H_throws, H_ok2}
\* two listener functions, one returning and one throwing
UserListener(throws) ==
    [k |-> "user", a |-> IF throws THEN 2 ELSE 1, throws |-> throws]

HasHandler(H, h) == \E i \in 1..Len(H) : H[i] = h

\* Set.delete / Set.add on an insertion-ordered Set
SetAdd(H, h) == IF HasHandler(H, h) THEN H ELSE Append(H, h)
SetDelete(H, h) == SelectSeq(H, LAMBDA x : x # h)

\* addHandler subscribing on every registration: the variant that
\* SubscribeOncePerTag tells apart from the code
AddHandlerAlwaysSubscribes(r, type, h, F) ==
    IfOk(Subscribe(r, type, F),
         LAMBDA r1 : [r1 EXCEPT !.handlers[type] = SetAdd(@, h)])

\* EventManager.addHandler(type, handler): the first handler of a tag calls
\* the subscribe callback (TpaSession.subscribe) before it is added.
AddHandlerOp(r, type, h, F) ==
    IfOk(IF Len(r.handlers[type]) = 0 THEN Subscribe(r, type, F) ELSE r,
         LAMBDA r1 : [r1 EXCEPT !.handlers[type] = SetAdd(@, h)])

AddHandler(type, h, F) ==
    Commit(AddHandlerOp(Cur, type, h, F),
           Op("addHandler", h.id, type, Len(handlers[type])))

\* a removal that unsubscribes the tag with its last handler and pushes the
\* new set: the variant that RemoveHandlerKeepsSubscription tells apart from
\* the code
RemoveHandlerUnsubscribes(r, type, h) ==
    LET r1 == [r EXCEPT !.handlers[type] = SetDelete(@, h)]
        r2 == IF Len(r1.handlers[type]) = 0
              THEN [r1 EXCEPT !.subscriptions = @ \ {type}] ELSE r1
    IN IF r2.ws # NoWs /\ r2.sockets[r2.ws].readyState = OPEN
       THEN UpdateSubscriptions(r2, {}) ELSE r2

\* EventManager.removeHandler(type, handler)
RemoveHandlerOp(r, type, h) ==
    [r EXCEPT !.handlers[type] = SetDelete(@, h)]

RemoveHandler(type, h) ==
    /\ HasHandler(handlers[type], h)
    /\ Commit(RemoveHandlerOp(Cur, type, h),
              Op("removeHandler", h.id, type, Len(handlers[type])))

\* onConnected / onDisconnected / onError / onSettingsUpdate: emitter.on
OnSystem(ev, throws) ==
    /\ ~HasHandler(emitter[ev], UserListener(throws))
    /\ Commit([Cur EXCEPT !.emitter[ev] = Append(@, UserListener(throws))],
              Op("on", 0, ev, Len(emitter[ev])))

\* the cleanup function they return: emitter.off
OffSystem(ev, throws) ==
    /\ HasHandler(emitter[ev], UserListener(throws))
    /\ Commit([Cur EXCEPT !.emitter[ev] = SetDelete(@, UserListener(throws))],
              Op("off", 0, ev, Len(emitter[ev])))

\* onSettingChange(WatchedKey, cb): settingsHandler listens on
\* `settings_update` and on `connected`; cb returns or throws
SettingListener(cbThrows) ==
    [k |-> "settingChange", a |-> IF cbThrows THEN 2 ELSE 1, throws |-> FALSE]

Watching(L) == \E i \in 1..Len(L) : L[i].k = "settingChange"

OnSettingChangeOp(r, cbThrows) ==
    [r EXCEPT !.previousValue = Undefined,
              !.delivered = Undefined,
              !.emitter["settings_update"] = Append(@, SettingListener(cbThrows)),
              !.emitter["connected"] = Append(@, SettingListener(cbThrows))]

OnSettingChange(cbThrows) ==
    /\ ~Watching(emitter["connected"])
    /\ Commit(OnSettingChangeOp(Cur, cbThrows), Op("onSettingChange", 0, WatchedKey, 0))

\* the cleanup function onSettingChange returns
OffSettingChange(cbThrows) ==
    /\ HasHandler(emitter["connected"], SettingListener(cbThrows))
    /\ Commit([Cur EXCEPT
                 !.emitter["settings_update"] = SetDelete(@, SettingListener(cbThrows)),
                 !.emitter["connected"] = SetDelete(@, SettingListener(cbThrows))],
              Op("offSettingChange", 0, WatchedKey, 0))

\* emit('connected' | 'settings_update', settings)
EmitSettings(ev, S) ==
    Commit(Emit(Cur, ev, S), Op("emitSettings", 0, ev, 0))

\* EventManager.emit called on its own (the session's calls are part of the
\* session's operations)
EmitEvent(ev) ==
    Commit(Emit(Cur, ev, "payload"), Op("emit", 0, ev, 0))

\* ------------------------------------------------------- connection
\* WebSocket.close(): an open socket starts closing; its close event comes
\* later (CloseEvent).
CloseSocket(r, h) ==
    [r EXCEPT !.closeCalls = @ + 1,
              !.sockets[h].readyState = IF @ = OPEN THEN CLOSING ELSE @]

Attempt(sid, by, fetch, timer) ==
    [sid |-> sid, by |-> by, promise |-> "pending", reason |-> NoErr,
     fetch |-> fetch, timer |-> timer]

\* TpaSession.connect(sessionId), up to the return of the promise: the
\* upgrade request and the timeout are pending afterwards.
Connect(r, sid, by) ==
    LET a == Len(r.attempts) + 1
        r1 == [r EXCEPT !.sessionId = sid]
        r2 == IF r1.ws # NoWs /\ r1.sockets[r1.ws].readyState # CLOSED
              THEN [CloseSocket(r1, r1.ws) EXCEPT !.ws = NoWs]
              ELSE r1
    IN IF ~r2.config.augmentOSWebsocketUrl
       THEN Reject([r2 EXCEPT !.attempts = Append(@, Attempt(sid, by, "none", "none"))],
                   a, "WebSocket URL is required")
       ELSE [r2 EXCEPT
               !.attempts = Append(@, Attempt(sid, by, "pending", "armed")),
               !.emitter["connected"] =
                   @ \o << [k |-> "resolve", a |-> a, throws |-> FALSE],
                           [k |-> "clear", a |-> a, throws |-> FALSE] >>]

\* connect() called by the session's owner
ConnectCall(sid) ==
    /\ Commit(Connect(Cur, sid, "owner"), Op("connect", Len(attempts) + 1, sid, 0))

\* the upgrade request of attempt a answers with a WebSocket: install the
\* listeners, accept, send CONNECTION_INIT
UpgradeOkOp(r, a, F) ==
    LET h == Len(r.sockets) + 1
        r1 == [r EXCEPT !.sockets = Append(@, [readyState |-> OPEN, attempt |-> a]),
                        !.ws = h,
                        !.attempts[a].fetch = "done"]
    IN Catch(SendConnectionInit(r1, F),
             LAMBDA e : Reject(Emit(e, "error", "Connection initialization failed"),
                               a, "Connection initialization failed"))

UpgradeOk(a, F) ==
    /\ attempts[a].fetch = "pending"
    /\ Commit(UpgradeOkOp(Cur, a, F), Op("upgradeOk", a, "", 0))

\* the upgrade request answers without a WebSocket: this.ws = resp.webSocket
\* is assigned before the throw, the .catch rejects
UpgradeNoSocketOp(r, a) ==
    Reject([r EXCEPT !.ws = NoWs, !.attempts[a].fetch = "failed"],
           a, "server didn't accept WebSocket")

UpgradeNoSocket(a) ==
    /\ attempts[a].fetch = "pending"
    /\ Commit(UpgradeNoSocketOp(Cur, a), Op("upgradeNoSocket", a, "", 0))

\* the upgrade request fails: the .catch rejects
UpgradeRejectedOp(r, a) ==
    Reject([r EXCEPT !.attempts[a].fetch = "failed"], a, "upgrade failed")

UpgradeRejected(a) ==
    /\ attempts[a].fetch = "pending"
    /\ Commit(UpgradeRejectedOp(Cur, a), Op("upgradeRejected", a, "", 0))

\* a timeout that rejects without emitting: the variant that
\* TimeoutEmitsOnceAndRejects tells apart from the code
TimeoutSilent(r, a) ==
    Reject([r EXCEPT !.attempts[a].timer = "fired"], a, "Connection timeout")

\* a timeout that emits and leaves the promise alone: the variant that
\* ConnectSettlesOnce tells apart from the code
TimeoutEmitsOnly(r, a) ==
    Emit([r EXCEPT !.attempts[a].timer = "fired"], "error", "Connection timeout")

\* the 5000 ms connectionTimeout of attempt a elapses
TimeoutOp(r, a) ==
    Reject(Emit([r EXCEPT !.attempts[a].timer = "fired"], "error",
                "Connection timeout"),
           a, "Connection timeout")

Timeout(a) ==
    /\ attempts[a].timer = "armed"
    /\ Commit(TimeoutOp(Cur, a),
              Op("timeout", a, "", IF attempts[a].promise = "pending" THEN 1 ELSE 0))

\* a disconnect that closes the channel and keeps the handle: the variant
\* that DisconnectClearsAndIsIdempotent tells apart from the code
DisconnectKeepsHandle(r) ==
    LET r1 == IF r.ws # NoWs THEN CloseSocket(r, r.ws) ELSE r
    IN [r1 EXCEPT !.sessionId = Null, !.subscriptions = {},
                  !.reconnectAttempts = 0]

\* a disconnect that also cancels the pending reconnection waits: the
\* variant that DisconnectKeepsReconnectWait tells apart from the code
DisconnectCancelsWait(r) ==
    LET r1 == IF r.ws # NoWs THEN [CloseSocket(r, r.ws) EXCEPT !.ws = NoWs] ELSE r
    IN [r1 EXCEPT !.sessionId = Null, !.subscriptions = {},
                  !.reconnectAttempts = 0, !.reconnectTimers = <<>>]

\* a disconnect that keeps the session id: the variant that
\* DisconnectNeverReconnects tells apart from the code
DisconnectKeepsSessionId(r) ==
    LET r1 == IF r.ws # NoWs THEN [CloseSocket(r, r.ws) EXCEPT !.ws = NoWs] ELSE r
    IN [r1 EXCEPT !.subscriptions = {}, !.reconnectAttempts = 0]

\* TpaSession.disconnect()
DisconnectOp(r) ==
    LET r1 == IF r.ws # NoWs THEN [CloseSocket(r, r.ws) EXCEPT !.ws = NoWs] ELSE r
    IN [r1 EXCEPT !.sessionId = Null, !.subscriptions = {},
                  !.reconnectAttempts = 0]

Disconnect ==
    Commit(DisconnectOp(Cur),
           Op("disconnect", 0, "", IF lastOp.op = "disconnect" THEN 1 ELSE 0))

\* this.config.maxReconnectAttempts || 5
ReconnectLimit(r) ==
    IF r.config.maxReconnectAttempts = 0 THEN DefaultMaxReconnectAttempts
    ELSE r.config.maxReconnectAttempts

\* 2^n
RECURSIVE Pow2(_)
Pow2(n) == IF n = 0 THEN 1 ELSE 2 * Pow2(n - 1)

\* a delay that doubles once too often: the variant that BackoffDoubles
\* tells apart from the code
ReconnectDelayDoubled(r) ==
    (IF r.config.reconnectDelay = 0 THEN DefaultReconnectDelay
     ELSE r.config.reconnectDelay) * Pow2(r.reconnectAttempts + 1)

\* (this.config.reconnectDelay || 1000) * Math.pow(2, this.reconnectAttempts)
ReconnectDelay(r) ==
    (IF r.config.reconnectDelay = 0 THEN DefaultReconnectDelay
     ELSE r.config.reconnectDelay) * Pow2(r.reconnectAttempts)

\* TpaSession.handleReconnection(), up to the start of its wait
HandleReconnection(r) ==
    IF \/ ~r.config.autoReconnect
       \/ r.sessionId = Null
       \/ r.reconnectAttempts >= ReconnectLimit(r)
    THEN r
    ELSE [r EXCEPT !.reconnectTimers = Append(@, ReconnectDelay(r)),
                   !.reconnectAttempts = @ + 1]

\* the close listener of socket h: the socket is closed (by the peer, or the
\* close the session started completes)
CloseEventOp(r, h) ==
    HandleReconnection(
        Emit([r EXCEPT !.sockets[h].readyState = CLOSED], "disconnected",
             "Connection closed"))

CloseEvent(h) ==
    /\ sockets[h].readyState \in {OPEN, CLOSING}
    /\ Commit(CloseEventOp(Cur, h), Op("close", h, "", 0))

\* the error listener of socket h
WsErrorOp(r, h) == Emit(r, "error", "WebSocket error")

WsError(h) ==
    /\ sockets[h].readyState \in {OPEN, CLOSING}
    /\ Commit(WsErrorOp(Cur, h), Op("wsError", h, "", 0))

\* handleReconnection's wait i elapses: connect(this.sessionId)
RemoveAt(s, i) == SubSeq(s, 1, i - 1) \o SubSeq(s, i + 1, Len(s))

ReconnectFireOp(r, i) ==
    Connect([r EXCEPT !.reconnectTimers = RemoveAt(@, i)], r.sessionId, "reconnect")

ReconnectFire(i) ==
    /\ Commit(ReconnectFireOp(Cur, i), Op("reconnect", Len(attempts) + 1, "", 0))

\* ------------------------------------------- settings-driven subscriptions
\* the subscription handlers given to setSubscriptionSettings: "byMode"
\* wants audio_chunk when setting `mode` is 1, "throws" throws
SettingsHandlers == {"byMode", "throws"}
TriggerChoices == {{}, {"mode"}}

ApplySettingsHandler(hd, S) ==
    IF HasSetting(S, "mode") /\ SettingValue(S, "mode") = 1
    THEN {"audio_chunk"} ELSE {}

\* a recomputation that clears the set before it calls the handler: the
\* variant that ThrowingHandlerLeavesSubscriptions tells apart from the code
UpdateFromSettingsClearsFirst(r, F) ==
    IF r.subscriptionSettingsHandler = Null THEN r
    ELSE IF r.subscriptionSettingsHandler = "throws"
         THEN Emit([r EXCEPT !.subscriptions = {}], "error",
                   "Failed to update subscriptions")
    ELSE LET r1 == [r EXCEPT !.subscriptions =
                        ApplySettingsHandler(r.subscriptionSettingsHandler, r.settings)]
         IN Catch(IF r1.ws # NoWs /\ r1.sockets[r1.ws].readyState = OPEN
                  THEN UpdateSubscriptions(r1, F) ELSE r1,
                  LAMBDA e : Emit(e, "error", "Failed to update subscriptions"))

\* TpaSession.updateSubscriptionsFromSettings()
UpdateSubscriptionsFromSettings(r, F) ==
    IF r.subscriptionSettingsHandler = Null THEN r
    ELSE IF r.subscriptionSettingsHandler = "throws"
         THEN Emit(r, "error", "Failed to update subscriptions")
    ELSE LET r1 == [r EXCEPT !.subscriptions =
                        ApplySettingsHandler(r.subscriptionSettingsHandler, r.settings)]
         IN Catch(IF r1.ws # NoWs /\ r1.sockets[r1.ws].readyState = OPEN
                  THEN UpdateSubscriptions(r1, F) ELSE r1,
                  LAMBDA e : Emit(e, "error", "Failed to update subscriptions"))

\* TpaSession.setSubscriptionSettings({updateOnChange, handler})
SetSubscriptionSettingsOp(r, triggers, hd, F) ==
    LET r1 == [r EXCEPT !.should = TRUE,
                        !.subscriptionUpdateTriggers = triggers,
                        !.subscriptionSettingsHandler = hd]
    IN IF Len(r1.settings) > 0 THEN UpdateSubscriptionsFromSettings(r1, F) ELSE r1

SetSubscriptionSettings(triggers, hd, F) ==
    Commit(SetSubscriptionSettingsOp(Cur, triggers, hd, F),
           Op("setSubscriptionSettings", 0, hd, 0))

\* ------------------------------------------------------ inbound dispatch
\* validateTpaConfig(config)
ValidateTpaConfig(c) == c.valid

\* TpaSession.getDefaultSettings(): the declared settings that are not
\* groups, each with value := defaultValue
RECURSIVE DefaultsOf(_)
DefaultsOf(D) ==
    IF D = <<>> THEN <<>>
    ELSE IF Head(D).type = "group" THEN DefaultsOf(Tail(D))
    ELSE <<[key |-> Head(D).key, value |-> Head(D).defaultValue]>> \o DefaultsOf(Tail(D))

GetDefaultSettings(r) == DefaultsOf(r.tpaConfig.settings)

\* TpaSession.getSettings()
GetSettings == settings

\* inbound JSON messages that carry a `type`
AckMessages ==
    { [type |-> "tpa_connection_ack", settings |-> S, config |-> c, text |-> ""] :
        S \in SettingsChoices, c \in ConfigDocs }
OtherMessages ==
    { [type |-> "tpa_connection_error", settings |-> <<>>, config |-> NoConfig, text |-> "refused"],
      [type |-> "tpa_connection_error", settings |-> <<>>, config |-> NoConfig, text |-> ""],
      [type |-> "app_stopped", settings |-> <<>>, config |-> NoConfig, text |-> "user_disabled"],
      [type |-> "bogus", settings |-> <<>>, config |-> NoConfig, text |-> ""] }
    \cup { [type |-> "settings_update", settings |-> S, config |-> NoConfig, text |-> ""] :
             S \in SettingsChoices }

\* handleMessage, CONNECTION_ACK branch: the settings and the config adopted
AdoptAck(r, m) ==
    LET r1 == [r EXCEPT !.settings = m.settings]
        r2 == IF m.config # NoConfig /\ ValidateTpaConfig(m.config)
              THEN [r1 EXCEPT !.tpaConfig = m.config] ELSE r1
    IN IF Len(r2.settings) = 0 /\ r2.tpaConfig # NoConfig
       THEN [r2 EXCEPT !.settings = GetDefaultSettings(r2)] ELSE r2

EmitConnected(r) == Emit(r, "connected", r.settings)

\* a CONNECTION_ACK branch that pushes the current set and never recomputes
\* it from the settings: the variant that AckPushesThenRecomputes tells apart
\* from the code
OnConnectionAckNoRecompute(r, m, F) ==
    UpdateSubscriptions(EmitConnected(AdoptAck(r, m)), F)

\* handleMessage, CONNECTION_ACK branch
OnConnectionAck(r, m, F) ==
    IfOk(UpdateSubscriptions(EmitConnected(AdoptAck(r, m)), F),
         LAMBDA r5 : IF r5.should /\ Len(r5.settings) > 0
                     THEN UpdateSubscriptionsFromSettings(r5, F)
                     ELSE r5)

\* a trigger test that fires on any change of the settings, watched or not:
\* the variant that SettingsUpdateRecomputesIffTriggered tells apart from
\* the code
TriggerChangedAnyKey(prev, new, triggers) == prev # new

\* some trigger key appeared, or changed its value
TriggerChanged(prev, new, triggers) ==
    \E key \in triggers :
        \/ ~HasSetting(prev, key) /\ HasSetting(new, key)
        \/ /\ HasSetting(prev, key) /\ HasSetting(new, key)
           /\ SettingValue(prev, key) # SettingValue(new, key)

\* handleMessage, SETTINGS_UPDATE branch
OnSettingsUpdate(r, m, F) ==
    Then(Emit([r EXCEPT !.settings = m.settings], "settings_update", m.settings),
         LAMBDA r1 :
            IF r1.should /\ TriggerChanged(r.settings, r1.settings,
                                           r1.subscriptionUpdateTriggers)
            THEN UpdateSubscriptionsFromSettings(r1, F)
            ELSE r1)

\* ---- stream messages and their payloads ----

\* a field of a JSON payload: its typeof and its value (numbers as digits)
Absent == [t |-> "undefined", v |-> ""]
Str(s) == [t |-> "string", v |-> s]
Num(s) == [t |-> "number", v |-> s]
\* JavaScript truthiness of a field
Truthy(x) ==
    \/ x.t = "string" /\ x.v # ""
    \/ x.t = "number" /\ x.v # "0"

\* a JSON value: null, undefined, a number, a string, or an object with the
\* fields the sanitizer looks at; a field read on a primitive is undefined
Value(kind, text, position, buttonId, pressType) ==
    [kind |-> kind, text |-> text, position |-> position,
     buttonId |-> buttonId, pressType |-> pressType]
Primitive(kind) == Value(kind, Absent, Absent, Absent, Absent)
EmptyObject == Value("object", Absent, Absent, Absent, Absent)

Payloads ==
    { Primitive(k) : k \in {"null", "undefined", "number", "string"} }
    \cup { Value("object", t, p, b, s) :
             t \in {Absent, Str("hi"), Num("5")},
             p \in {Absent, Str("down"), Num("5")},
             b \in {Absent, Str("b1"), Str(""), Num("5")},
             s \in {Absent, Str("long")} }

\* stream tags carried by DATA_STREAM messages ("" for a missing streamType)
StreamTypes == {"transcription", "head_position", "button_press", "location_update"}

AudioChunkMessage ==
    [type |-> "audio_chunk", streamType |-> "", data |-> Primitive("undefined")]
StreamMessages ==
    { [type |-> "data_stream", streamType |-> t, data |-> d] :
        t \in StreamTypes \cup {""}, d \in Payloads }
    \cup {AudioChunkMessage}

\* TpaSession.sanitizeEventData(streamType, data); the defaults' timestamps
\* and the isFinal flag are left out of the value
SanitizeEventData(streamType, data) ==
    IF data.kind \in {"null", "undefined"} THEN EmptyObject
    ELSE CASE streamType = "transcription" ->
                IF data.text.t # "string"
                THEN Value("object", Str(""), Absent, Absent, Absent)
                ELSE data
           [] streamType = "head_position" ->
                IF data.position.t # "string"
                THEN Value("object", Absent, Str("up"), Absent, Absent)
                ELSE data
           [] streamType = "button_press" ->
                IF ~Truthy(data.buttonId) \/ ~Truthy(data.pressType)
                THEN Value("object", Absent, Absent, Str("unknown"), Str("short"))
                ELSE data
           [] OTHER -> data

\* handleMessage, AUDIO_CHUNK branch
OnAudioChunk(r, m) ==
    IF "audio_chunk" \in r.subscriptions THEN Emit(r, "audio_chunk", m) ELSE r

OnDataStreamUngated(r, m) ==
    IF m.streamType # ""
    THEN Emit(r, m.streamType, SanitizeEventData(m.streamType, m.data))
    ELSE r

\* handleMessage, DATA_STREAM branch
OnDataStream(r, m) ==
    IF m.streamType # "" /\ m.streamType \in r.subscriptions
    THEN Emit(r, m.streamType, SanitizeEventData(m.streamType, m.data))
    ELSE r

\* TpaSession.handleMessage(message) for a message with a `type`
HandleMessage(r, m, F) ==
    Catch(CASE m.type = "tpa_connection_ack" -> OnConnectionAck(r, m, F)
            [] m.type = "tpa_connection_error" ->
                 Emit(r, "error",
                      IF m.text = "" THEN "Unknown connection error" ELSE m.text)
            [] m.type = "audio_chunk" -> OnAudioChunk(r, m)
            [] m.type = "data_stream" -> OnDataStream(r, m)
            [] m.type = "settings_update" -> OnSettingsUpdate(r, m, F)
            [] m.type = "app_stopped" ->
                 Emit(r, "disconnected", "App stopped: " \o m.text)
            [] OTHER -> Emit(r, "error", "Unrecognized message type"),
          LAMBDA e : Emit(e, "error", "Error processing message"))

\* the message listener of socket h receives a JSON text frame
Message(h, m, F) ==
    /\ sockets[h].readyState \in {OPEN, CLOSING}
    /\ Commit(HandleMessage(Cur, m, F),
              Op("message", h, m, IF ws = h /\ sockets[h].readyState = OPEN THEN 1 ELSE 0))

\* the frames the message listener does not hand to handleMessage as a
\* parsed object, and the binary frame it wraps as an AUDIO_CHUNK
\* ("binary": a Buffer flagged isBinary; "arrayBuffer": an ArrayBuffer)
FrameKinds ==
    {"binary", "binaryEmpty", "arrayBuffer", "arrayBufferEmpty", "unknownFormat",
     "empty", "notJson", "nonObject", "noType"}

\* a listener that drops what it cannot parse without an event: the variant
\* that MalformedFrameEmitsOneError tells apart from the code
FrameOpSilent(r, kind) ==
    CASE kind = "binaryEmpty" -> Emit(r, "error", "Received empty binary data")
      [] kind = "binary" -> HandleMessage(r, AudioChunkMessage, {})
      [] OTHER -> r

FrameOp(r, kind) ==
    CASE kind = "binaryEmpty" -> Emit(r, "error", "Received empty binary data")
      [] kind = "binary" -> HandleMessage(r, AudioChunkMessage, {})
      [] kind \in {"arrayBuffer", "arrayBufferEmpty"} -> r
      [] kind = "empty" -> Emit(r, "error", "Received empty JSON message")
      [] kind \in {"notJson", "unknownFormat"} ->
           Emit(r, "error", "Failed to parse JSON message")
      [] kind \in {"nonObject", "noType"} ->
           Emit(r, "error", "Malformed message: missing type property")

\* the message listener of socket h receives a frame of the given kind
Frame(h, kind) ==
    /\ sockets[h].readyState \in {OPEN, CLOSING}
    /\ Commit(FrameOp(Cur, kind), Op("frame", h, kind, 0))

\* send(message) called by the application through the LayoutManager
SendCall(shape, F) ==
    Commit(Send(Cur, LayoutMessage(shape), F), Op("send", 0, shape, 0))

\* ------------------------------------------------------- specification
\* the fields of a new TpaSession, but for its config
\* ------------------------------------------------------------ Handler
\* The Durable Object that owns the sessions.  The model follows one
\* TpaSession, the one a session-start webhook constructs ("cur");
\* activeSessions may already track a session constructed by an earlier
\* webhook ("old"), of which only its entry in the map is kept.
HandlerIds == {"s1", "s2"}
NoSessions == << >>
TrackedChoices == {NoSessions, [id \in {"s1"} |-> "old"]}
NoWebhook == [state |-> "none", sid |-> Null, attempt |-> 0, tracked |-> NoSessions]
NoResponse == [status |-> 0, body |-> "none", activeSessions |-> 0]
Success == [status |-> 200, body |-> "success", activeSessions |-> 0]
Failure(msg) == [status |-> 500, body |-> msg, activeSessions |-> 0]

\* the stream tags onSession registers a handler for
DefaultHandlerTags ==
    {"head_position", "button_press", "glasses_battery_update", "transcription",
     "vad", "phone_notification"}
DefaultTagOrder ==
    << "head_position", "button_press", "glasses_battery_update", "transcription",
       "vad", "phone_notification" >>
\* the handler onSession registers for a tag
H_default == [id |-> 4, throws |-> FALSE]
\* handleSessionRequest's listeners and onSession's onError listener
UntrackListener == [k |-> "untrack", a |-> 0, throws |-> FALSE]
LogErrorListener == [k |-> "logError", a |-> 0, throws |-> FALSE]
SessionErrorListener == [k |-> "sessionError", a |-> 0, throws |-> FALSE]

\* onSession's registrations from the i-th on; one that throws ends them
RECURSIVE RegisterDefaults(_, _, _)
RegisterDefaults(r, i, F) ==
    IF i > Len(DefaultTagOrder) THEN r
    ELSE IfOk(AddHandlerOp(r, DefaultTagOrder[i], H_default, F),
              LAMBDA r1 : RegisterDefaults(r1, i + 1, F))

\* Handler.onSession(session, sessionId, userId)
OnSession(r, F) ==
    IfOk(RegisterDefaults(r, 1, F),
         LAMBDA r1 : [r1 EXCEPT !.emitter["error"] = Append(@, SessionErrorListener)])

\* handleSessionRequest up to `await session.connect(sessionId)`
HandleSessionRequestOp(r, sid) ==
    Connect([r EXCEPT
               !.emitter["disconnected"] = Append(@, UntrackListener),
               !.emitter["error"] = Append(@, LogErrorListener),
               !.webhook = [state |-> "awaiting", sid |-> sid,
                            attempt |-> Len(r.attempts) + 1,
                            tracked |-> r.activeSessions]],
            sid, "owner")

\* handleSessionRequest's catch block
SessionFailed(r) ==
    [r EXCEPT !.emitter["disconnected"] = SetDelete(@, UntrackListener),
              !.emitter["error"] = SetDelete(@, LogErrorListener),
              !.response = Failure("Failed to connect")]

\* handleSessionRequest after the await: the rest of the try block when
\* connect resolved, the catch block when it rejected or onSession threw
SessionResumed(r, F) ==
    LET r0 == [r EXCEPT !.webhook.state = "done"]
    IN IF r.attempts[r.webhook.attempt].promise = "resolved"
       THEN Catch(IfOk(OnSession([r0 EXCEPT !.activeSessions =
                                      MapSet(@, r.webhook.sid, "cur")], F),
                       LAMBDA r1 : [r1 EXCEPT !.response = Success]),
                  LAMBDA e : SessionFailed(e))
       ELSE SessionFailed(r0)

\* the continuation of `await session.connect(sessionId)` is due
ResumeDue ==
    /\ webhook.state = "awaiting"
    /\ attempts[webhook.attempt].promise # "pending"

\* POST /webhook with a session request: a TpaSession is constructed
HandleSessionRequest(sid) ==
    /\ webhook.state = "none"
    /\ attempts = <<>>
    /\ Commit(HandleSessionRequestOp(Cur, sid), Op("sessionRequest", 1, sid, 0))

HandleSessionResume(F) ==
    /\ ResumeDue
    /\ Commit(SessionResumed(Cur, F),
              Op("sessionResume", webhook.attempt, webhook.sid,
                 IF attempts[webhook.attempt].promise = "resolved" THEN 1 ELSE 0))

\* an onStop that disconnects and keeps the entry: the variant that
\* StopUntracksAndDisconnects tells apart from the code
OnStopKeepsEntry(r, sid) ==
    IF sid \in DOMAIN r.activeSessions /\ r.activeSessions[sid] = "cur"
    THEN DisconnectOp(r)
    ELSE r

\* Handler.onStop(env, sessionId, userId, reason)
OnStop(r, sid) ==
    IF sid \in DOMAIN r.activeSessions
    THEN [(IF r.activeSessions[sid] = "cur" THEN DisconnectOp(r) ELSE r)
            EXCEPT !.activeSessions = MapDelete(@, sid)]
    ELSE r

\* Handler.handleStopRequest(request, env); disconnect() does not throw, so
\* its catch block is not entered
HandleStopRequestOp(r, sid) == [OnStop(r, sid) EXCEPT !.response = Success]

HandleStopRequest(sid) ==
    Commit(HandleStopRequestOp(Cur, sid),
           Op("stopRequest", 0, sid, IF sid \in DOMAIN activeSessions THEN 1 ELSE 0))

\* GET /health
HealthOp(r) ==
    [r EXCEPT !.response = [status |-> 200, body |-> "healthy",
                            activeSessions |-> Cardinality(DOMAIN r.activeSessions)]]

Health == Commit(HealthOp(Cur), Op("health", 0, "", 0))

\* POST /webhook with a request that is neither a session nor a stop request
UnknownWebhook ==
    Commit([Cur EXCEPT !.response = [status |-> 400,
                                     body |-> "Unknown webhook request type",
                                     activeSessions |-> 0]],
           Op("unknownWebhook", 0, "", 0))

InitSession ==
    /\ ws = NoWs
    /\ sessionId = Null
    /\ reconnectAttempts = 0
    /\ subscriptions = {}
    /\ settings = <<>>
    /\ tpaConfig = NoConfig
    /\ shouldUpdateSubscriptionsOnSettingsChange = FALSE
    /\ subscriptionSettingsHandler = Null
    /\ subscriptionUpdateTriggers = {}
    /\ handlers = [t \in Tags \cup DefaultHandlerTags |-> <<>>]
    /\ emitter = [e \in SystemEvents |-> <<>>]
    /\ sockets = <<>>
    /\ attempts = <<>>
    /\ reconnectTimers = <<>>
    /\ previousValue = Undefined
    /\ settingCalls = <<>>
    /\ delivered = Undefined
    /\ activeSessions \in TrackedChoices
    /\ webhook = NoWebhook
    /\ response = NoResponse
    /\ sendLog = <<>>
    /\ emitted = <<>>
    /\ invoked = <<>>
    /\ lastOp = Op("new", 0, "", 0)

Init == config \in ConfigChoices /\ InitSession /\ activeSessions = NoSessions

\* TpaSession.subscribe(type) called by the application
SubscribeCall(type, F) ==
    Commit(Subscribe(Cur, type, F), Op("subscribe", 0, type, 0))

\* which ws.send calls of an operation (counted from 1) the platform fails
Failures == {{}, {1}}

\* The connection life cycle: connect, the upgrade's outcomes, the timeout,
\* CONNECTION_ACK, close and reconnection, disconnect, send, subscribe, and a
\* throwing listener on `connected`.
AckOfConn ==
    { m \in AckMessages : m.config = NoConfig /\ m.settings \in {S_none, S_mode1} }

Next ==
    \/ \E sid \in SessionIds : Len(attempts) < MaxAttempts /\ ConnectCall(sid)
    \/ \E a \in DOMAIN attempts, F \in Failures : UpgradeOk(a, F)
    \/ \E a \in DOMAIN attempts : UpgradeNoSocket(a)
    \/ \E a \in DOMAIN attempts : UpgradeRejected(a)
    \/ \E a \in DOMAIN attempts : Timeout(a)
    \/ \E h \in DOMAIN sockets, m \in AckOfConn, F \in Failures : Message(h, m, F)
    \/ \E h \in DOMAIN sockets : CloseEvent(h)
    \/ \E i \in DOMAIN reconnectTimers : Len(attempts) < MaxAttempts /\ ReconnectFire(i)
    \/ Disconnect
    \/ \E shape \in {"ok", "notObject", "noType"}, F \in Failures : SendCall(shape, F)
    \/ \E F \in Failures : SubscribeCall("head_position", F)
    \/ OnSystem("connected", TRUE)

Spec == Init /\ [][Next]_vars

\* The EventManager on its own: handlers of the stream tags, listeners of
\* `connected` and `error`, and emit of every tag.
InitEvents == Init /\ config.augmentOSWebsocketUrl /\ ~config.autoReconnect

NextEvents ==
    \/ \E t \in Tags, h \in Handlers : AddHandler(t, h, {})
    \/ \E t \in Tags, h \in Handlers : RemoveHandler(t, h)
    \/ \E ev \in {"connected", "error"}, b \in BOOLEAN : OnSystem(ev, b)
    \/ \E ev \in {"connected", "error"}, b \in BOOLEAN : OffSystem(ev, b)
    \/ \E ev \in Tags \cup SystemEvents : EmitEvent(ev)

SpecEvents == InitEvents /\ [][NextEvents]_vars

\* The subscription set: handlers, settings-driven subscriptions, the
\* messages that carry settings, and connect / disconnect.
MaxSubsAttempts == 2
SettingsMessages ==
    { m \in AckMessages : m.config # InvalidConfig }
    \cup { m \in OtherMessages : m.type = "settings_update" }

NextSubs ==
    \/ \E sid \in SessionIds : Len(attempts) < MaxSubsAttempts /\ ConnectCall(sid)
    \/ \E a \in DOMAIN attempts : UpgradeOk(a, {})
    \/ \E h \in DOMAIN sockets, m \in SettingsMessages : Message(h, m, {})
    \/ \E h \in DOMAIN sockets : CloseEvent(h)
    \/ Disconnect
    \/ \E t \in Tags : AddHandler(t, H_ok, {})
    \/ \E t \in Tags : RemoveHandler(t, H_ok)
    \/ \E tr \in TriggerChoices, hd \in SettingsHandlers : SetSubscriptionSettings(tr, hd, {})

SpecSubs == InitEvents /\ [][NextSubs]_vars

\* ------------------------------------------------------------ properties
\* the number of entries of log s that satisfy P
Count(s, P(_)) == Cardinality({ i \in DOMAIN s : P(s[i]) })

IsError(e) == e.tag = "error"
IsTimeoutEvent(e) == e.tag = "error" /\ e.payload = "Connection timeout"

\* a channel in state rs as the session's handle
WithHandle(rs) ==
    [Cur EXCEPT !.sockets = << [readyState |-> rs, attempt |-> 0] >>, !.ws = 1]

\* C1: send() transmits only when a channel handle exists and its readyState
\* is OPEN; with no handle, or a handle that is CONNECTING, CLOSING or CLOSED,
\* send() raises an error to its caller and transmits nothing.
SendsOnlyWhenOpen ==
    /\ \A i \in DOMAIN sendLog :
          /\ sendLog[i].transmitted =>
                sendLog[i].ws # NoWs /\ sendLog[i].readyState = OPEN
          /\ (sendLog[i].ws = NoWs \/ sendLog[i].readyState # OPEN) =>
                ~sendLog[i].transmitted /\ sendLog[i].error # NoErr
    /\ lastOp.op = "send" =>
          /\ Len(sendLog) = 1
          /\ lastOp.threw = sendLog[1].error
          /\ (ws = NoWs \/ sockets[ws].readyState # OPEN) => lastOp.threw # NoErr
    /\ \A rs \in ReadyStates \ {OPEN} :
          /\ SendError(WithHandle(rs), LayoutMessage("ok"), {}) # NoErr
          /\ Send(WithHandle(rs), LayoutMessage("ok"), {}).exc # NoErr
          /\ ~Send(WithHandle(rs), LayoutMessage("ok"), {}).sendLog[1].transmitted

\* send() called while the session's handle is a channel the peer has
\* closed: it raised to its caller
SendOnClosedHandleRaised ==
    /\ lastOp.op = "send"
    /\ Len(sendLog) = 1
    /\ sendLog[1].ws # NoWs
    /\ sendLog[1].readyState = CLOSED
    /\ ~sendLog[1].transmitted
    /\ lastOp.threw = "WebSocket not connected: CLOSED"

\* C2: at most one channel handle created by the session is alive at any
\* time.  (Checked in the weaker form "at most one handle is OPEN"; a handle
\* that is CLOSING is not counted.)
AtMostOneOpenHandle ==
    Cardinality({ h \in DOMAIN sockets : sockets[h].readyState = OPEN }) <= 1

\* the tags the settings-driven subscription handler produces now
SettingsTags ==
    IF shouldUpdateSubscriptionsOnSettingsChange
       /\ subscriptionSettingsHandler = "byMode"
    THEN ApplySettingsHandler(subscriptionSettingsHandler, settings)
    ELSE {}

\* the tags with at least one registered handler
HandlerTags == { t \in Tags : Len(handlers[t]) > 0 }

\* the SUBSCRIPTION_UPDATEs the last operation transmitted
SentUpdates ==
    { i \in DOMAIN sendLog :
        sendLog[i].msg.type = "SUBSCRIPTION_UPDATE" /\ sendLog[i].transmitted }

\* C3: every SUBSCRIPTION_UPDATE sent to the peer lists every stream tag that
\* has a registered handler, plus the tags the settings-driven subscription
\* handler produces.  (Checked on the last SUBSCRIPTION_UPDATE of each
\* operation, the one the peer is left with.)
SubscriptionUpdateCoversHandlers ==
    \A i \in SentUpdates :
        (\A j \in SentUpdates : j <= i) =>
            (HandlerTags \cup SettingsTags) \subseteq sendLog[i].msg.subscriptions

\* C4: a CONNECTION_ACK that arrives on the session's open channel while the
\* attempt's promise is pending and its timeout armed resolves the promise,
\* cancels the timeout, makes getSettings() return the settings it carries and
\* sends a SUBSCRIPTION_UPDATE with the current subscriptions (no ws.send
\* failing).
AckResolvesConnect ==
    [][ \A h \in DOMAIN sockets :
          ( /\ lastOp'.op = "message"
            /\ lastOp'.a = h
            /\ lastOp'.pre = 1
            /\ lastOp'.tag.type = "tpa_connection_ack"
            /\ attempts[sockets[h].attempt].promise = "pending"
            /\ attempts[sockets[h].attempt].timer = "armed"
            /\ \A i \in DOMAIN sendLog' : sendLog'[i].error # "Failed to send message" )
          =>
          ( /\ attempts'[sockets[h].attempt].promise = "resolved"
            /\ attempts'[sockets[h].attempt].timer = "cleared"
            /\ settings' = lastOp'.tag.settings
            /\ \E i \in DOMAIN sendLog' :
                  /\ sendLog'[i].msg.type = "SUBSCRIPTION_UPDATE"
                  /\ sendLog'[i].transmitted
                  /\ sendLog'[i].msg.subscriptions = subscriptions' ) ]_vars

ConnectErrorsEmitAndReject ==
    ( \/ lastOp.op \in {"connect", "reconnect"} /\ ~config.augmentOSWebsocketUrl
      \/ lastOp.op \in {"upgradeNoSocket", "upgradeRejected", "timeout"} )
    =>
    ( /\ attempts[lastOp.a].promise = "rejected"
      /\ Count(emitted, IsError) >= 1 )

\* C7: after disconnect() the session has no handle, no session id, no
\* subscriptions and a reconnect counter of 0, and disconnect() raised
\* nothing; a second disconnect() in a row leaves the state as the first left
\* it and closes no channel.
DisconnectClearsAndIsIdempotent ==
    [][ lastOp'.op = "disconnect" =>
          /\ ws' = NoWs
          /\ sessionId' = Null
          /\ subscriptions' = {}
          /\ reconnectAttempts' = 0
          /\ lastOp'.threw = NoErr
          /\ lastOp.op = "disconnect" =>
                /\ lastOp'.closeCalls = 0
                /\ UNCHANGED << config, ws, sessionId, reconnectAttempts,
                                subscriptions, settings, tpaConfig,
                                shouldUpdateSubscriptionsOnSettingsChange,
                                subscriptionSettingsHandler,
                                subscriptionUpdateTriggers, handlers, emitter,
                                sockets, attempts, reconnectTimers >> ]_vars

\* disconnect() called twice in a row, the first call having closed a channel
DisconnectedTwice ==
    /\ lastOp.op = "disconnect"
    /\ lastOp.pre = 1
    /\ lastOp.closeCalls = 0
    /\ ws = NoWs
    /\ \E h \in DOMAIN sockets : sockets[h].readyState = CLOSING

\* C8: registering a handler for a tag without handlers calls subscribe
\* exactly once, with that tag; registering a further handler for a tag that
\* has one calls subscribe zero times.
SubscribeOncePerTag ==
    lastOp.op = "addHandler" =>
        /\ lastOp.pre = 0 => lastOp.subscribeCalls = 1 /\ lastOp.tag \in subscriptions
        /\ lastOp.pre > 0 => lastOp.subscribeCalls = 0

\* a second handler registered for a tag: no subscribe call
SecondHandlerRegistered ==
    /\ lastOp.op = "addHandler"
    /\ lastOp.pre = 1
    /\ Len(handlers[lastOp.tag]) = 2
    /\ lastOp.subscribeCalls = 0

\* the handlers and listeners registered for tag
Registered(tag) ==
    { [tag |-> tag, k |-> "handler", a |-> handlers[tag][i].id] :
        i \in (IF tag \in Tags THEN DOMAIN handlers[tag] ELSE {}) }
    \cup
    { [tag |-> tag, k |-> emitter[tag][i].k, a |-> emitter[tag][i].a] :
        i \in (IF tag \in SystemEvents THEN DOMAIN emitter[tag] ELSE {}) }

\* how many of them throw
Throwing(tag) ==
    Cardinality({ i \in (IF tag \in Tags THEN DOMAIN handlers[tag] ELSE {}) :
                    handlers[tag][i].throws })
    + Cardinality({ i \in (IF tag \in SystemEvents THEN DOMAIN emitter[tag] ELSE {}) :
                      emitter[tag][i].throws })

\* C9: emit(tag, payload) invokes every handler registered for the tag even
\* when some of them throw, and produces exactly one `error` event per
\* throwing handler, with or without an `error` listener, for system tags as
\* for stream tags.
EmitInvokesAllHandlers ==
    lastOp.op = "emit" =>
        /\ \A x \in Registered(lastOp.tag) : \E j \in DOMAIN invoked : invoked[j] = x
        /\ lastOp.tag # "error" => Count(emitted, IsError) = Throwing(lastOp.tag)

\* C10: emit(tag, payload) never raises to its caller; an emission of `error`
\* emits no further `error` event, and an emission of any tag makes at most
\* one `error` emission per handler and one more.
EmitNeverThrows ==
    lastOp.op = "emit" =>
        /\ ~lastOp.escaped
        /\ lastOp.threw = NoErr
        /\ lastOp.tag = "error" => Len(emitted) = 1
        /\ lastOp.tag \in Tags => Len(emitted) <= Len(handlers[lastOp.tag]) + 2
        /\ lastOp.tag \in SystemEvents => Len(emitted) <= 2

\* `error` emitted while a throwing `error` listener is registered
ErrorEmittedToThrowingListener ==
    /\ lastOp.op = "emit"
    /\ lastOp.tag = "error"
    /\ \E i \in DOMAIN emitter["error"] : emitter["error"][i].throws
    /\ \E j \in DOMAIN invoked : invoked[j].k = "user" /\ invoked[j].a = 2
    /\ ~lastOp.escaped

\* onSettingChange on its own: the callback, listeners of `connected` and
\* `settings_update` registered before or after it, and the two events with
\* every settings value.
NextSettings ==
    \/ \E b \in BOOLEAN : OnSettingChange(b)
    \/ \E b \in BOOLEAN : OffSettingChange(b)
    \/ \E ev \in {"connected", "settings_update"}, b \in BOOLEAN : OnSystem(ev, b)
    \/ \E ev \in {"connected", "settings_update"}, S \in SettingsChoices :
          EmitSettings(ev, S)

SpecSettings == InitEvents /\ [][NextSettings]_vars

\* C11: on a `connected` or `settings_update` event, the callback registered
\* with onSettingChange(key, cb) is called once, with (value, last value
\* delivered to cb, undefined before the first), when the settings contain key
\* with a value other than the last delivered one, and is not called
\* otherwise.
SettingChangeDelivered ==
    [][ (lastOp'.op = "emitSettings" /\ Watching(emitter[lastOp'.tag])) =>
          settingCalls' =
              IF /\ HasSetting(emitted'[1].payload, WatchedKey)
                 /\ Some(SettingValue(emitted'[1].payload, WatchedKey)) # delivered
              THEN << [value |-> Some(SettingValue(emitted'[1].payload, WatchedKey)),
                       previous |-> delivered] >>
              ELSE <<>> ]_vars

\* send() on its own: every kind of failure, on every state of the handle the
\* session reaches, with and without `error` listeners.
MaxSendAttempts == 2

NextSend ==
    \/ \E sid \in SessionIds : Len(attempts) < MaxSendAttempts /\ ConnectCall(sid)
    \/ \E a \in DOMAIN attempts : UpgradeOk(a, {})
    \/ \E h \in DOMAIN sockets : CloseEvent(h)
    \/ Disconnect
    \/ \E ev \in {"error"}, b \in BOOLEAN : OnSystem(ev, b)
    \/ \E shape \in {"ok", "notObject", "noType"}, F \in Failures : SendCall(shape, F)
    \/ \E F \in Failures : SubscribeCall("head_position", F)

SpecSend == InitEvents /\ [][NextSend]_vars

\* the error events that carry message e
ErrorEvents(log, e) ==
    Cardinality({ j \in DOMAIN log : log[j].tag = "error" /\ log[j].payload = e })

\* C12: every failing send() (no channel, channel not open, message not an
\* object or without type, transmission failure) emits exactly one `error`
\* event carrying its error and raises that error to its caller; for a
\* channel that is not open the error names the state.
SendFailureEmitsOnce ==
    /\ lastOp.op = "send" =>
          /\ Len(sendLog) = 1
          /\ lastOp.threw = sendLog[1].error
          /\ emitted = IF sendLog[1].error = NoErr THEN <<>>
                       ELSE << [tag |-> "error", payload |-> sendLog[1].error] >>
    /\ lastOp.op = "subscribe" =>
          /\ \A i \in DOMAIN sendLog : lastOp.threw = sendLog[i].error
          /\ Len(emitted) = Cardinality({ i \in DOMAIN sendLog : sendLog[i].error # NoErr })
    /\ \A i \in DOMAIN sendLog :
          /\ sendLog[i].error # NoErr => ErrorEvents(emitted, sendLog[i].error) = 1
          /\ sendLog[i].ws = NoWs =>
                sendLog[i].error = "WebSocket connection not established"
          /\ (sendLog[i].ws # NoWs /\ sendLog[i].readyState # OPEN) =>
                sendLog[i].error =
                    "WebSocket not connected: " \o StateName(sendLog[i].readyState)
    /\ \A rs \in ReadyStates \ {OPEN} :
          /\ StateName(rs) \in {"CONNECTING", "CLOSING", "CLOSED"}
          /\ Send(WithHandle(rs), LayoutMessage("ok"), {}).exc =
                "WebSocket not connected: " \o StateName(rs)
          /\ Send(WithHandle(rs), LayoutMessage("ok"), {}).emitted =
                << [tag |-> "error",
                    payload |-> "WebSocket not connected: " \o StateName(rs)] >>

\* a message without `type` sent on an open channel while an `error`
\* listener is registered: the listener was called and send() raised
SendWithoutTypeRaised ==
    /\ lastOp.op = "send"
    /\ lastOp.threw = "Invalid message: missing type"
    /\ sendLog[1].readyState = OPEN
    /\ emitted = << [tag |-> "error", payload |-> "Invalid message: missing type"] >>
    /\ \E j \in DOMAIN invoked : invoked[j].tag = "error" /\ invoked[j].k = "user"

\* Reconnection: sessions with auto-reconnect, every maxReconnectAttempts
\* from 0 to 2 and a default or a configured reconnectDelay; connects by the
\* owner and by handleReconnection, failing and succeeding.
MaxReconnectConnects == 3
MaxConfiguredAttempts == 2
ConfiguredDelay == 500

ReconnectConfigs ==
    { [augmentOSWebsocketUrl |-> TRUE, autoReconnect |-> TRUE,
       maxReconnectAttempts |-> n, reconnectDelay |-> d] :
        n \in 0..MaxConfiguredAttempts, d \in {0, ConfiguredDelay} }

InitReconnect ==
    config \in ReconnectConfigs /\ InitSession /\ activeSessions = NoSessions

AckPlain == { m \in AckMessages : m.config = NoConfig /\ m.settings = S_none }

NextReconnect ==
    \/ \E sid \in SessionIds : Len(attempts) < MaxReconnectConnects /\ ConnectCall(sid)
    \/ \E a \in DOMAIN attempts : UpgradeOk(a, {})
    \/ \E a \in DOMAIN attempts : UpgradeRejected(a)
    \/ \E h \in DOMAIN sockets, m \in AckPlain : Message(h, m, {})
    \/ \E h \in DOMAIN sockets : CloseEvent(h)
    \/ \E i \in DOMAIN reconnectTimers :
          Len(attempts) < MaxReconnectConnects /\ ReconnectFire(i)
    \/ Disconnect

SpecReconnect == InitReconnect /\ [][NextReconnect]_vars

\* C13: with auto-reconnect enabled, a reconnection connect is the N-th
\* consecutive one for an N of at most maxReconnectAttempts, for every
\* configured maxReconnectAttempts including 0.  (N is the attempt counter
\* when the connect is made.)
ReconnectsWithinMax ==
    [][ lastOp'.op = "reconnect" =>
          /\ reconnectAttempts <= config.maxReconnectAttempts
          /\ config.maxReconnectAttempts > 0 ]_vars

\* reconnectDelay, defaulting to 1000
BaseDelay ==
    IF config.reconnectDelay = 0 THEN 1000 ELSE config.reconnectDelay

\* a reconnection is scheduled in this step: with the counter incremented to
\* N it waits reconnectDelay * 2^(N-1)
BackoffScheduled ==
    Len(reconnectTimers') > Len(reconnectTimers) =>
        /\ reconnectAttempts' = reconnectAttempts + 1
        /\ reconnectTimers' =
              Append(reconnectTimers, BaseDelay * 2^(reconnectAttempts' - 1))

\* the connects (made by `by`) whose promise resolves in this step
ResolvedNow(by) ==
    { a \in DOMAIN attempts :
        /\ attempts[a].by \in by
        /\ attempts[a].promise = "pending"
        /\ attempts'[a].promise = "resolved" }

\* the counter counts the consecutive reconnections since the last resolved
\* connect made by `by`, or disconnect()
CountedSince(by) ==
    /\ (ResolvedNow(by) # {} \/ lastOp'.op = "disconnect") => reconnectAttempts' = 0
    /\ (/\ ResolvedNow(by) = {}
        /\ lastOp'.op # "disconnect"
        /\ Len(reconnectTimers') <= Len(reconnectTimers)) =>
            reconnectAttempts' = reconnectAttempts

\* C14 as stated: the N-th consecutive reconnection, counted since the last
\* successful connect (by the owner or by a reconnection) or disconnect, waits
\* reconnectDelay * 2^(N-1), the counter being incremented before the wait.
BackoffSinceAnyConnect ==
    [][ BackoffScheduled /\ CountedSince({"owner", "reconnect"}) ]_vars

\* C14: the N-th consecutive reconnection, counted since the last successful
\* reconnection connect or disconnect(), waits reconnectDelay * 2^(N-1)
\* (reconnectDelay defaulting to 1000), the counter being incremented before
\* the wait; a successful connect() by the owner does not reset the count.
BackoffDoubles ==
    [][ BackoffScheduled /\ CountedSince({"reconnect"}) ]_vars

\* a second consecutive reconnection is waiting twice the base delay
SecondReconnectWaits ==
    /\ lastOp.op = "close"
    /\ reconnectAttempts = 2
    /\ reconnectTimers # <<>>
    /\ reconnectTimers[Len(reconnectTimers)] = 2 * BaseDelay

\* Inbound frames: stream messages with every payload, binary frames,
\* malformed text frames and an unrecognized type, with the application
\* subscribing, registering handlers and `error` listeners.
MaxInboundAttempts == 1
BogusMessages == { m \in OtherMessages : m.type = "bogus" }
FullPayload == Value("object", Str("hi"), Str("down"), Str("b1"), Str("long"))
InboundStreamMessages ==
    { m \in StreamMessages : m.data \in {Primitive("undefined"), FullPayload} }

NextInbound ==
    \/ \E sid \in SessionIds : Len(attempts) < MaxInboundAttempts /\ ConnectCall(sid)
    \/ \E a \in DOMAIN attempts : UpgradeOk(a, {})
    \/ \E t \in StreamTypes \cup {"audio_chunk"} : SubscribeCall(t, {})
    \/ \E h \in {H_ok, H_throws} : AddHandler("head_position", h, {})
    \/ \E b \in BOOLEAN : OnSystem("error", b)
    \/ \E h \in DOMAIN sockets, m \in InboundStreamMessages : Message(h, m, {})
    \/ \E h \in DOMAIN sockets, m \in BogusMessages : Message(h, m, {})
    \/ \E h \in DOMAIN sockets, kind \in FrameKinds : Frame(h, kind)
    \/ Disconnect

SpecInbound == InitEvents /\ [][NextInbound]_vars

\* the stream tag of the inbound message or frame handled by the last step
\* ("none" when the step handled no stream message)
DispatchedTag ==
    CASE lastOp.op = "message" /\ lastOp.tag.type = "audio_chunk" -> "audio_chunk"
      [] lastOp.op = "message" /\ lastOp.tag.type = "data_stream" -> lastOp.tag.streamType
      [] lastOp.op = "frame" /\ lastOp.tag = "binary" -> "audio_chunk"
      [] OTHER -> "none"

\* C15: a stream event (AUDIO_CHUNK, or a DATA_STREAM message's streamType)
\* is emitted only if its tag is in the subscription set when the message is
\* dispatched; a stream message whose tag is outside the set causes no
\* emission at all, and so no `error` event.
StreamEmittedOnlyIfSubscribed ==
    /\ \A j \in DOMAIN emitted :
          emitted[j].tag \in StreamTypes \cup {"audio_chunk"} =>
              /\ emitted[j].tag = DispatchedTag
              /\ emitted[j].tag \in subscriptions
    /\ (DispatchedTag # "none" /\ DispatchedTag \notin subscriptions) =>
          emitted = <<>>

\* a DATA_STREAM message of a subscribed tag was emitted while another
\* stream tag is outside the subscription set
SubscribedStreamEmitted ==
    /\ DispatchedTag = "head_position"
    /\ "head_position" \in subscriptions
    /\ "transcription" \notin subscriptions
    /\ emitted # <<>>
    /\ emitted[1].tag = "head_position"

\* The sanitizer applied to every payload: the application subscribes to
\* stream tags and the peer sends DATA_STREAM messages.
MaxSanitizeAttempts == 1

NextSanitize ==
    \/ \E sid \in SessionIds : Len(attempts) < MaxSanitizeAttempts /\ ConnectCall(sid)
    \/ \E a \in DOMAIN attempts : UpgradeOk(a, {})
    \/ \E t \in StreamTypes : SubscribeCall(t, {})
    \/ \E h \in DOMAIN sockets, m \in StreamMessages : Message(h, m, {})

SpecSanitize == InitEvents /\ [][NextSanitize]_vars

\* the minimum shape of a stream type's payload
MinimumShape(streamType, v) ==
    CASE streamType = "transcription" -> v.kind = "object" /\ v.text.t = "string"
      [] streamType = "head_position" -> v.kind = "object" /\ v.position.t = "string"
      [] streamType = "button_press" ->
           /\ v.kind = "object"
           /\ v.buttonId.t # "undefined"
           /\ v.pressType.t # "undefined"
      [] OTHER -> TRUE

\* the stream types that have a minimum shape
ShapedTypes == {"transcription", "head_position", "button_press"}

\* the last step emitted the sanitized payload of a DATA_STREAM message of a
\* stream type that has a minimum shape
SanitizedEmitted ==
    /\ lastOp.op = "message"
    /\ lastOp.tag.type = "data_stream"
    /\ lastOp.tag.streamType \in ShapedTypes
    /\ emitted # <<>>
    /\ emitted[1].tag = lastOp.tag.streamType

\* C16: for every DATA_STREAM payload (null, undefined, non-object values
\* and objects with missing or wrongly typed fields included) the sanitized
\* payload that is emitted satisfies the minimum shape of its stream type,
\* and a payload that already satisfies the shape is emitted unchanged.
SanitizedHasMinimumShape ==
    SanitizedEmitted =>
        /\ MinimumShape(lastOp.tag.streamType, emitted[1].payload)
        /\ MinimumShape(lastOp.tag.streamType, lastOp.tag.data) =>
              emitted[1].payload = lastOp.tag.data

\* subscribe() on its own: every tag, on every state of the channel, with
\* the other senders of SUBSCRIPTION_UPDATE (CONNECTION_ACK, addHandler).
MaxSubscribeAttempts == 2
SubscribeTags == Tags \cup {"transcription"}

NextSubscribe ==
    \/ \E sid \in SessionIds : Len(attempts) < MaxSubscribeAttempts /\ ConnectCall(sid)
    \/ \E a \in DOMAIN attempts : UpgradeOk(a, {})
    \/ \E h \in DOMAIN sockets, m \in AckPlain : Message(h, m, {})
    \/ \E h \in DOMAIN sockets : CloseEvent(h)
    \/ Disconnect
    \/ \E t \in Tags : AddHandler(t, H_ok, {})
    \/ \E t \in SubscribeTags, F \in Failures : SubscribeCall(t, F)

SpecSubscribe == InitEvents /\ [][NextSubscribe]_vars

\* the session has a channel and it is open
ChannelOpen == ws # NoWs /\ sockets[ws].readyState = OPEN

\* every SUBSCRIPTION_UPDATE handed to send() in this step lists the whole
\* subscription set of the moment it is sent
UpdatesAreComplete ==
    \A i \in DOMAIN sendLog' :
        sendLog'[i].msg.type = "SUBSCRIPTION_UPDATE" =>
            sendLog'[i].msg.subscriptions = sendLog'[i].subscriptions

\* C17: subscribe(tag) adds tag to the subscription set; with the channel
\* open it sends exactly one SUBSCRIPTION_UPDATE, whose subscriptions are the
\* whole set after the addition (transmitted unless the platform fails the
\* write); with no channel or a channel that is not open it sends nothing.
\* Every SUBSCRIPTION_UPDATE carries the complete set of its send time.
SubscribePushesWholeSet ==
    [][ /\ UpdatesAreComplete
        /\ lastOp'.op = "subscribe" =>
              /\ subscriptions' = subscriptions \cup {lastOp'.tag}
              /\ IF ChannelOpen
                 THEN /\ Len(sendLog') = 1
                      /\ sendLog'[1].msg.type = "SUBSCRIPTION_UPDATE"
                      /\ sendLog'[1].msg.subscriptions = subscriptions'
                      /\ sendLog'[1].ws = ws
                      /\ sendLog'[1].error \in {NoErr, "Failed to send message"}
                 ELSE sendLog' = <<>> ]_vars

\* subscribe of a second tag on an open channel transmitted both tags
SecondTagPushed ==
    /\ lastOp.op = "subscribe"
    /\ Cardinality(subscriptions) = 2
    /\ Len(sendLog) = 1
    /\ sendLog[1].transmitted
    /\ sendLog[1].msg.subscriptions = subscriptions

\* The Handler: one session-start webhook and the connect it awaits, stop
\* webhooks, health queries, and the channel's events.  The continuation of
\* the await runs before any other event is taken.
HandlerConfig ==
    [augmentOSWebsocketUrl |-> TRUE, autoReconnect |-> FALSE,
     maxReconnectAttempts |-> 0, reconnectDelay |-> DefaultReconnectDelay]

InitHandler == config = HandlerConfig /\ InitSession

NextHandler ==
    \/ \E F \in Failures : HandleSessionResume(F)
    \/ \E sid \in HandlerIds : ~ResumeDue /\ HandleSessionRequest(sid)
    \/ \E a \in DOMAIN attempts, F \in Failures : ~ResumeDue /\ UpgradeOk(a, F)
    \/ \E a \in DOMAIN attempts : ~ResumeDue /\ UpgradeNoSocket(a)
    \/ \E a \in DOMAIN attempts : ~ResumeDue /\ UpgradeRejected(a)
    \/ \E a \in DOMAIN attempts : ~ResumeDue /\ Timeout(a)
    \/ \E h \in DOMAIN sockets, m \in AckPlain : ~ResumeDue /\ Message(h, m, {})
    \/ \E h \in DOMAIN sockets : ~ResumeDue /\ CloseEvent(h)
    \/ \E sid \in HandlerIds : ~ResumeDue /\ HandleStopRequest(sid)
    \/ ~ResumeDue /\ Health
    \/ ~ResumeDue /\ UnknownWebhook

SpecHandler == InitHandler /\ [][NextHandler]_vars

\* the step is the continuation of a session-start webhook's await, after
\* connect resolved / rejected
ResumeResolved == lastOp'.op = "sessionResume" /\ lastOp'.pre = 1
ResumeRejected == lastOp'.op = "sessionResume" /\ lastOp'.pre = 0
\* a step of the session while the webhook awaits connect
WhileAwaiting ==
    /\ webhook.state = "awaiting"
    /\ lastOp'.op \notin {"sessionResume", "stopRequest"}

\* C18: a session-start webhook tracks the session under its id if and only
\* if connect resolved, and then the default handlers are registered and the
\* response is a success; if connect rejected, the webhook has left
\* activeSessions unchanged (while it awaited connect and in its catch), its
\* disconnect and error listeners are removed, and the response is an error
\* with status 500.
SessionTrackedIffConnected ==
    [][ /\ ResumeResolved =>
              /\ webhook.sid \in DOMAIN activeSessions'
              /\ activeSessions'[webhook.sid] = "cur"
              /\ \A t \in DefaultHandlerTags : HasHandler(handlers'[t], H_default)
              /\ response' = Success
        /\ ResumeRejected =>
              /\ activeSessions' = activeSessions
              /\ ~HasHandler(emitter'["disconnected"], UntrackListener)
              /\ ~HasHandler(emitter'["error"], LogErrorListener)
              /\ response'.status = 500
        /\ WhileAwaiting => activeSessions' = activeSessions ]_vars

\* the session the model follows is disconnected after the step
SessionDisconnected ==
    /\ ws' = NoWs
    /\ sessionId' = Null
    /\ subscriptions' = {}
    /\ ws # NoWs => sockets'[ws].readyState \in {CLOSING, CLOSED}

\* C19: a session-stop webhook for a tracked id disconnects that session and
\* removes the id from activeSessions (the other entries stay); a stop for an
\* id that is not tracked leaves activeSessions unchanged; both return
\* success; the health query reports the current size of activeSessions.
StopUntracksAndDisconnects ==
    [][ /\ lastOp'.op = "stopRequest" =>
              /\ IF lastOp'.tag \in DOMAIN activeSessions
                 THEN /\ activeSessions' = MapDelete(activeSessions, lastOp'.tag)
                      /\ activeSessions[lastOp'.tag] = "cur" => SessionDisconnected
                 ELSE activeSessions' = activeSessions
              /\ response' = Success
        /\ lastOp'.op = "health" =>
              /\ activeSessions' = activeSessions
              /\ response'.status = 200
              /\ response'.activeSessions = Cardinality(DOMAIN activeSessions) ]_vars

\* the tracked session, its channel open, was stopped: its channel is being
\* closed and its id is not tracked any more
TrackedSessionStopped ==
    /\ lastOp.op = "stopRequest"
    /\ lastOp.pre = 1
    /\ lastOp.tag \notin DOMAIN activeSessions
    /\ ws = NoWs
    /\ \E h \in DOMAIN sockets : sockets[h].readyState = CLOSING

\* the step handles a text frame that is empty, not JSON, not an object,
\* without a `type`, or of an unrecognized type
MalformedFrames == {"empty", "notJson", "nonObject", "noType"}
MalformedStep ==
    IF lastOp'.op = "frame" THEN lastOp'.tag \in MalformedFrames
    ELSE IF lastOp'.op = "message" THEN lastOp'.tag.type = "bogus"
    ELSE FALSE

\* C20: an inbound text frame that is empty, not parsable JSON, a non-object,
\* without a `type` field or of an unrecognized `type` raises nothing to the
\* caller of the message listener, emits exactly one event, an `error`, and
\* leaves the settings and the subscription set unchanged.
MalformedFrameEmitsOneError ==
    [][ MalformedStep =>
          /\ lastOp'.threw = NoErr
          /\ ~lastOp'.escaped
          /\ Len(emitted') = 1
          /\ emitted'[1].tag = "error"
          /\ settings' = settings
          /\ subscriptions' = subscriptions
          /\ sendLog' = <<>> ]_vars

\* a frame that is not JSON arrived at a session with subscriptions and no
\* `error` listener, and one `error` event was emitted
NotJsonFrameReported ==
    /\ lastOp.op = "frame"
    /\ lastOp.tag = "notJson"
    /\ subscriptions # {}
    /\ emitter["error"] = <<>>
    /\ Len(emitted) = 1
    /\ emitted[1].tag = "error"

\* Close events with auto-reconnect enabled and disabled, for every
\* configured maximum.
CloseConfigs ==
    { [augmentOSWebsocketUrl |-> TRUE, autoReconnect |-> b,
       maxReconnectAttempts |-> n, reconnectDelay |-> DefaultReconnectDelay] :
        b \in BOOLEAN, n \in 0..MaxConfiguredAttempts }

InitClose == config \in CloseConfigs /\ InitSession /\ activeSessions = NoSessions

SpecClose == InitClose /\ [][NextReconnect]_vars

\* what the close listener does when handleReconnection does nothing: the
\* `disconnected` event and nothing else
OnlyDisconnectedEmitted ==
    /\ Len(emitted') = 1
    /\ emitted'[1].tag = "disconnected"
    /\ reconnectTimers' = reconnectTimers
    /\ attempts' = attempts
    /\ reconnectAttempts' = reconnectAttempts

\* C21: a close event while auto-reconnect is disabled, or no session id is
\* set, or the attempt counter has reached the configured maximum, arms no
\* timer, starts no connect, leaves the counter unchanged and emits nothing
\* but the close listener's `disconnected`.
CloseWithoutReconnectIsNoOp ==
    [][ (/\ lastOp'.op = "close"
         /\ \/ ~config.autoReconnect
            \/ sessionId = Null
            \/ reconnectAttempts >= config.maxReconnectAttempts)
        => OnlyDisconnectedEmitted ]_vars

\* Reconnection attempts that fail: the upgrade is refused, or the timeout
\* elapses before or after the upgrade answered.
MaxRetryConnects == 3
RetryConfig ==
    [augmentOSWebsocketUrl |-> TRUE, autoReconnect |-> TRUE,
     maxReconnectAttempts |-> MaxConfiguredAttempts,
     reconnectDelay |-> DefaultReconnectDelay]

InitRetry == config = RetryConfig /\ InitSession /\ activeSessions = NoSessions

NextRetry ==
    \/ \E sid \in SessionIds : Len(attempts) < MaxRetryConnects /\ ConnectCall(sid)
    \/ \E a \in DOMAIN attempts : UpgradeOk(a, {})
    \/ \E a \in DOMAIN attempts : UpgradeRejected(a)
    \/ \E a \in DOMAIN attempts : Timeout(a)
    \/ \E h \in DOMAIN sockets, m \in AckPlain : Message(h, m, {})
    \/ \E h \in DOMAIN sockets : CloseEvent(h)
    \/ \E i \in DOMAIN reconnectTimers :
          Len(attempts) < MaxRetryConnects /\ ReconnectFire(i)
    \/ Disconnect

SpecRetry == InitRetry /\ [][NextRetry]_vars

\* the connects (made by `by`) whose promise is rejected in this step
RejectedNow(by) ==
    { a \in DOMAIN attempts :
        /\ attempts[a].by \in by
        /\ attempts[a].promise = "pending"
        /\ attempts'[a].promise = "rejected" }

\* C22: a reconnection attempt whose connect rejects emits one `error`
\* 'Reconnection failed' and does not reset the attempt counter; the
\* counter decreases only when a reconnection connect resolves (to zero) or
\* disconnect() is called, so it never decreases over failed attempts.
FailedReconnectKeepsCount ==
    [][ /\ ErrorEvents(emitted', "Reconnection failed") =
              Cardinality(RejectedNow({"reconnect"}))
        /\ RejectedNow({"reconnect"}) # {} /\ ResolvedNow({"reconnect"}) = {} =>
              reconnectAttempts' >= reconnectAttempts
        /\ reconnectAttempts' < reconnectAttempts =>
              /\ reconnectAttempts' = 0
              /\ ResolvedNow({"reconnect"}) # {} \/ lastOp'.op = "disconnect" ]_vars

\* the second consecutive reconnection connect was rejected, the counter
\* still at 2
SecondReconnectFailed ==
    /\ lastOp.op \in {"upgradeRejected", "timeout"}
    /\ attempts[lastOp.a].by = "reconnect"
    /\ attempts[lastOp.a].promise = "rejected"
    /\ ErrorEvents(emitted, "Reconnection failed") = 1
    /\ reconnectAttempts = 2

\* C23: disconnect() leaves a pending reconnection wait armed, and when a
\* wait elapses connect is invoked with the session id of that moment, which
\* is the cleared one after a disconnect(): a connect attempt can start after
\* an explicit disconnect.
DisconnectKeepsReconnectWait ==
    [][ /\ lastOp'.op = "disconnect" => reconnectTimers' = reconnectTimers
        /\ lastOp'.op = "reconnect" =>
              /\ Len(attempts') = Len(attempts) + 1
              /\ attempts'[Len(attempts')].by = "reconnect"
              /\ attempts'[Len(attempts')].sid = sessionId
              /\ Len(reconnectTimers') = Len(reconnectTimers) - 1 ]_vars

\* a reconnection connect started after disconnect() had cleared the session
\* id, and its upgrade request is pending
ReconnectAfterDisconnect ==
    /\ lastOp.op = "reconnect"
    /\ attempts[lastOp.a].by = "reconnect"
    /\ attempts[lastOp.a].sid = Null
    /\ attempts[lastOp.a].fetch = "pending"
    /\ sessionId = Null

\* the last step received a binary frame, empty / with bytes
EmptyBinaryFrame ==
    lastOp.op = "frame" /\ lastOp.tag \in {"binaryEmpty", "arrayBufferEmpty"}
NonEmptyBinaryFrame ==
    lastOp.op = "frame" /\ lastOp.tag \in {"binary", "arrayBuffer"}
IsAudioChunk(e) == e.tag = "audio_chunk"

\* C24: every binary frame, as a Buffer or as an ArrayBuffer: an empty one
\* yields an `error` event; one with bytes yields exactly one AUDIO_CHUNK
\* emission when AUDIO_CHUNK is subscribed and no emission when it is not.
BinaryFrameBecomesAudioChunk ==
    /\ EmptyBinaryFrame =>
          Count(emitted, IsError) >= 1 /\ Count(emitted, IsAudioChunk) = 0
    /\ NonEmptyBinaryFrame =>
          IF "audio_chunk" \in subscriptions
          THEN Count(emitted, IsAudioChunk) = 1
          ELSE emitted = <<>>

\* ---- CONNECTION_ACK: adopt, emit, push, recompute ----

\* the last step was a CONNECTION_ACK handled by the message listener
AckStep == lastOp.op = "message" /\ lastOp.tag.type = "tpa_connection_ack"
\* ... that arrived on the channel that was the session's open handle
AckOnOpenHandle == AckStep /\ lastOp.pre = 1
\* the settings an ACK leaves: its own, or the defaults of the known config
AdoptedSettings ==
    IF Len(lastOp.tag.settings) > 0 THEN lastOp.tag.settings
    ELSE IF tpaConfig # NoConfig THEN DefaultsOf(tpaConfig.settings)
    ELSE <<>>
\* settings-driven subscriptions are enabled and the settings are non-empty
SettingsDriven == shouldUpdateSubscriptionsOnSettingsChange /\ Len(settings) > 0
SettingsDerivedSet == ApplySettingsHandler(subscriptionSettingsHandler, settings)
IsSubscriptionUpdate(c) == c.msg.type = "SUBSCRIPTION_UPDATE"

SettingsUpdateStep == lastOp.op = "message" /\ lastOp.tag.type = "settings_update"
\* the session's handle is an open channel
HandleOpen == ws # NoWs /\ sockets[ws].readyState = OPEN
\* the settings were replaced and `settings_update` was emitted with them
\* before anything was sent
SettingsReplacedFirst ==
    /\ settings = lastOp.tag.settings
    /\ Len(emitted) >= 1
    /\ emitted[1] = [tag |-> "settings_update", payload |-> settings]
    /\ \A i \in DOMAIN sendLog : sendLog[i].emitted >= 1
\* the one push of a recomputation
PushedOnce ==
    /\ Len(sendLog) = 1
    /\ IsSubscriptionUpdate(sendLog[1])
    /\ sendLog[1].transmitted
    /\ sendLog[1].msg.subscriptions = subscriptions

\* in this step some watched key took a value that differs from its previous
\* one, or appeared where it was absent
WatchedKeyChanged ==
    \E key \in subscriptionUpdateTriggers :
        /\ HasSetting(settings', key)
        /\ HasSetting(settings, key) => SettingValue(settings, key) # SettingValue(settings', key)

\* C26 as stated: with settings-driven mode enabled, a SETTINGS_UPDATE
\* replaces the subscription set by the settings-derived one and pushes it
\* (if the channel is open) exactly when a watched key changed or appeared,
\* whatever the subscription handler does.
SettingsUpdateAlwaysRecomputesIffTriggered ==
    [][(SettingsUpdateStep' /\ shouldUpdateSubscriptionsOnSettingsChange) =>
         /\ SettingsReplacedFirst'
         /\ IF WatchedKeyChanged
            THEN /\ subscriptions' = SettingsDerivedSet'
                 /\ IF HandleOpen THEN PushedOnce' ELSE sendLog' = <<>>
            ELSE subscriptions' = subscriptions /\ sendLog' = <<>>]_vars

\* C26: with settings-driven mode enabled and a subscription handler that
\* returns, a SETTINGS_UPDATE replaces the settings and emits
\* `settings_update` first; then, if and only if a watched trigger key differs
\* from its previous value or newly appears, the subscription set is
\* replaced by the settings-derived set and, if the channel is open, pushed
\* once; otherwise the set is unchanged and nothing is sent.  With a handler
\* that throws the set is never changed and nothing is sent; an `error`
\* event is emitted exactly when a trigger changed.
SettingsUpdateRecomputesIffTriggered ==
    [][(SettingsUpdateStep' /\ shouldUpdateSubscriptionsOnSettingsChange) =>
         /\ SettingsReplacedFirst'
         /\ IF subscriptionSettingsHandler = "throws"
            THEN /\ subscriptions' = subscriptions
                 /\ sendLog' = <<>>
                 /\ (Count(emitted', IsError) >= 1) <=>
                       WatchedKeyChanged
            ELSE IF WatchedKeyChanged
            THEN /\ subscriptions' = SettingsDerivedSet'
                 /\ IF HandleOpen THEN PushedOnce' ELSE sendLog' = <<>>
            ELSE subscriptions' = subscriptions /\ sendLog' = <<>>]_vars

\* a SETTINGS_UPDATE changed the watched key while the channel was open: the
\* handler-derived set was replaced by the settings-derived one and pushed
TriggeredUpdatePushed ==
    /\ SettingsUpdateStep
    /\ shouldUpdateSubscriptionsOnSettingsChange
    /\ subscriptionSettingsHandler = "byMode"
    /\ PushedOnce
    /\ subscriptions = {"audio_chunk"}
    /\ \E t \in Tags \ {"audio_chunk"} : handlers[t] # <<>>

\* ---- CONNECTION_INIT on an accepted channel ----

\* the last step was the upgrade of a connect attempt answering with a channel
ChannelAccepted == lastOp.op = "upgradeOk"

\* C27: on every channel a connect(sessionId) attempt accepts, the first
\* outbound message is CONNECTION_INIT, sent on that channel before anything
\* else, and it carries the session id that was passed to that connect call,
\* whatever disconnect(), subscribe() and connect() calls ran while the
\* upgrade was pending.
InitCarriesConnectSessionId ==
    ChannelAccepted =>
        /\ Len(sendLog) >= 1
        /\ sendLog[1].msg.type = "CONNECTION_INIT"
        /\ sendLog[1].ws = Len(sockets)
        /\ sockets[Len(sockets)].attempt = lastOp.a
        /\ sendLog[1].msg.sessionId = attempts[lastOp.a].sid

\* ---- every connect() settles ----

\* connect against every behaviour of the peer: the upgrade answers with a
\* channel, without one, fails, or never answers; the peer acknowledges,
\* answers CONNECTION_ERROR, closes, or stays silent; the owner calls
\* connect again, disconnect, or has a throwing `connected` listener.
\* Timers fire: a connectionTimeout that stays armed eventually elapses.
SettleMessages ==
    AckPlain \cup { m \in OtherMessages : m.type = "tpa_connection_error" }

NextSettle ==
    \/ \E sid \in SessionIds : Len(attempts) < MaxAttempts /\ ConnectCall(sid)
    \/ \E a \in DOMAIN attempts, F \in Failures : UpgradeOk(a, F)
    \/ \E a \in DOMAIN attempts : UpgradeNoSocket(a)
    \/ \E a \in DOMAIN attempts : UpgradeRejected(a)
    \/ \E a \in DOMAIN attempts : Timeout(a)
    \/ \E h \in DOMAIN sockets, m \in SettleMessages : Message(h, m, {})
    \/ \E h \in DOMAIN sockets : CloseEvent(h)
    \/ \E i \in DOMAIN reconnectTimers : Len(attempts) < MaxAttempts /\ ReconnectFire(i)
    \/ Disconnect
    \/ OnSystem("connected", TRUE)

\* the connectionTimeout of the a-th connect elapses, once that connect
\* was made
TimeoutFires(a) == a \in DOMAIN attempts /\ Timeout(a)

SpecSettle ==
    /\ Init
    /\ [][NextSettle]_vars
    /\ \A a \in 1..MaxAttempts : WF_vars(TimeoutFires(a))

Settled(a) == attempts[a].promise # "pending"

\* C28: every connect() settles, and settles once: its promise is resolved
\* or rejected no later than its 5-second timeout elapses (a timeout that
\* has fired or was cleared belongs to a settled promise, and a pending
\* promise has its timeout armed), a settled promise never changes, and,
\* timers firing, every promise is eventually settled whatever the peer
\* does.
ConnectSettlesOnce ==
    /\ [](\A a \in DOMAIN attempts :
            /\ attempts[a].timer # "armed" => Settled(a)
            /\ ~Settled(a) => attempts[a].timer = "armed")
    /\ [][\A a \in DOMAIN attempts :
            Settled(a) => /\ attempts'[a].promise = attempts[a].promise
                          /\ attempts'[a].reason = attempts[a].reason]_vars
    /\ \A a \in 1..MaxAttempts :
          [](a \in DOMAIN attempts => <>(a \in DOMAIN attempts /\ Settled(a)))

\* the peer never answered the upgrade and never spoke: the timeout elapsed
\* and rejected the promise that was still pending
SilentPeerTimedOut ==
    /\ lastOp.op = "timeout"
    /\ lastOp.pre = 1
    /\ attempts[lastOp.a].fetch = "pending"
    /\ attempts[lastOp.a].promise = "rejected"
    /\ attempts[lastOp.a].reason = "Connection timeout"

\* ---- removing a handler ----

\* handlers of the stream tags added and removed while the session connects
\* and its channel opens
MaxRemoveAttempts == 1
RemovableHandlers == {H_ok, H_ok2}

NextRemove ==
    \/ \E sid \in SessionIds : Len(attempts) < MaxRemoveAttempts /\ ConnectCall(sid)
    \/ \E a \in DOMAIN attempts : UpgradeOk(a, {})
    \/ \E t \in Tags, h \in RemovableHandlers : AddHandler(t, h, {})
    \/ \E t \in Tags, h \in RemovableHandlers : RemoveHandler(t, h)
    \/ \E h \in DOMAIN sockets : CloseEvent(h)
    \/ Disconnect

SpecRemove == InitEvents /\ [][NextRemove]_vars

RemoveStep == lastOp.op = "removeHandler"

\* C29: removing a handler, the last of its tag included, leaves the
\* subscription set as it was and sends nothing to the peer; it takes the
\* given handler out of its tag's handlers and leaves every other handler,
\* of that tag and of the other tags, registered in its place.
RemoveHandlerKeepsSubscription ==
    [][RemoveStep' =>
         /\ subscriptions' = subscriptions
         /\ sendLog' = <<>>
         /\ \A t \in DOMAIN handlers :
               handlers'[t] = IF t = lastOp'.tag
                              THEN SelectSeq(handlers[t], LAMBDA x : x.id # lastOp'.a)
                              ELSE handlers[t]
         /\ Len(handlers'[lastOp'.tag]) = Len(handlers[lastOp'.tag]) - 1]_vars

\* the last handler of a tag was removed while the channel was open: the
\* tag is still subscribed and nothing was sent
LastHandlerRemovedWhileOpen ==
    /\ RemoveStep
    /\ HandleOpen
    /\ handlers[lastOp.tag] = <<>>
    /\ lastOp.tag \in subscriptions
    /\ sendLog = <<>>

\* ---- the close event of a channel the session replaced ----

\* C30: the close event of a channel the session itself closed (connect()
\* replacing its previous handle) starts no reconnection: it arms no wait
\* and does not count an attempt, so that no later connect closes the
\* channel that replaced it.
SelfClosedChannelStartsNoReconnect ==
    [][(lastOp'.op = "close" /\ sockets[lastOp'.a].readyState = CLOSING) =>
         /\ reconnectTimers' = reconnectTimers
         /\ reconnectAttempts' = reconnectAttempts]_vars

\* ---- the channel of a failed connect ----

\* connect attempt a was rejected by its timeout or because CONNECTION_INIT
\* could not be sent
FailedAfterAccept(a) ==
    /\ attempts[a].promise = "rejected"
    /\ attempts[a].reason \in {"Connection timeout", "Connection initialization failed"}

\* C31: whenever the promise of a connect() was rejected by its timeout or
\* by a failure to send CONNECTION_INIT, the channel accepted during that
\* attempt is not open, and it is not the session's handle in a state in
\* which its messages are still dispatched.
FailedConnectLeavesNoOpenChannel ==
    \A h \in DOMAIN sockets :
        FailedAfterAccept(sockets[h].attempt) => sockets[h].readyState # OPEN

\* ---- the timeout of an attempt that already failed ----

\* C32: a connect() reports its failure once: when the timeout of an attempt
\* elapses after its promise was rejected for another reason (the upgrade
\* failed, the peer returned no channel, CONNECTION_INIT could not be sent),
\* no 'Connection timeout' `error` event is emitted.
FailedAttemptTimesOutSilently ==
    ( /\ lastOp.op = "timeout"
      /\ attempts[lastOp.a].promise = "rejected"
      /\ attempts[lastOp.a].reason # "Connection timeout" )
    => Count(emitted, IsTimeoutEvent) = 0

\* ---- untracking a session ----

\* The Handler with a peer that may also send APP_STOPPED.
StopMessages == AckPlain \cup { m \in OtherMessages : m.type = "app_stopped" }

NextUntrack ==
    \/ \E F \in Failures : HandleSessionResume(F)
    \/ \E sid \in HandlerIds : ~ResumeDue /\ HandleSessionRequest(sid)
    \/ \E a \in DOMAIN attempts : ~ResumeDue /\ UpgradeOk(a, {})
    \/ \E a \in DOMAIN attempts : ~ResumeDue /\ Timeout(a)
    \/ \E h \in DOMAIN sockets, m \in StopMessages : ~ResumeDue /\ Message(h, m, {})
    \/ \E h \in DOMAIN sockets : ~ResumeDue /\ CloseEvent(h)
    \/ \E sid \in HandlerIds : ~ResumeDue /\ HandleStopRequest(sid)

SpecUntrack == InitHandler /\ [][NextUntrack]_vars

\* the session constructed by the webhook is tracked under sid
Tracked(sid) == sid \in DOMAIN activeSessions /\ activeSessions[sid] = "cur"
\* some channel of the session is open
SomeChannelOpen == \E h \in DOMAIN sockets : sockets[h].readyState = OPEN

\* C33: the session is removed from activeSessions only when its channel
\* has been closed, whatever removes it (stop webhook, channel close,
\* inbound APP_STOPPED): after a step that untracks it, the session holds no
\* open channel.
UntrackedOnlyWhenClosed ==
    [][\A sid \in HandlerIds :
         (Tracked(sid) /\ ~Tracked(sid)') => ~SomeChannelOpen']_vars

\* ---- two session-start webhooks for one session id ----

\* A second session-start webhook for the same id, served by another
\* TpaSession instance whose connect resolved: of that instance only its
\* entry in activeSessions is kept ("new"); its listeners are on its own
\* emitter.
SecondSessionTrackedOp(r, sid) ==
    [r EXCEPT !.activeSessions = MapSet(@, sid, "new"), !.response = Success]

SecondSessionTracked(sid) ==
    /\ webhook.state # "none"
    /\ sid = webhook.sid
    /\ Commit(SecondSessionTrackedOp(Cur, sid), Op("secondSession", 0, sid, 0))

NextTwoSessions ==
    \/ \E F \in Failures : HandleSessionResume(F)
    \/ \E sid \in HandlerIds : ~ResumeDue /\ HandleSessionRequest(sid)
    \/ \E sid \in HandlerIds : ~ResumeDue /\ SecondSessionTracked(sid)
    \/ \E a \in DOMAIN attempts : ~ResumeDue /\ UpgradeOk(a, {})
    \/ \E a \in DOMAIN attempts : ~ResumeDue /\ Timeout(a)
    \/ \E h \in DOMAIN sockets, m \in AckPlain : ~ResumeDue /\ Message(h, m, {})
    \/ \E h \in DOMAIN sockets : ~ResumeDue /\ CloseEvent(h)
    \/ \E sid \in HandlerIds : ~ResumeDue /\ HandleStopRequest(sid)

SpecTwoSessions == InitHandler /\ [][NextTwoSessions]_vars

\* sid is tracked as the instance started second
TrackedSecond(sid) == sid \in DOMAIN activeSessions /\ activeSessions[sid] = "new"

\* C34: with two session-start webhooks for one id, an event of the
\* instance started first (its channel closing, a message on it) leaves the
\* entry of the instance started second in place, and when the entry of the
\* first instance is overwritten by the second the first holds no open
\* channel.
DisconnectedRemovesOwnEntryOnly ==
    [][\A sid \in HandlerIds :
         /\ (TrackedSecond(sid) /\ lastOp'.op \in {"close", "message"}) =>
               TrackedSecond(sid)'
         /\ (Tracked(sid) /\ TrackedSecond(sid)') => ~SomeChannelOpen']_vars

\* ---- disconnect() and the close event it causes ----

\* no reconnection is under way and none starts in this step
NoReconnectionStarted ==
    /\ sessionId' = Null
    /\ reconnectTimers' = <<>>
    /\ reconnectAttempts' = 0
    /\ Len(attempts') = Len(attempts)

RecomputedWithThrowingHandler ==
    /\ subscriptionSettingsHandler' = "throws"
    /\ \/ lastOp'.op = "setSubscriptionSettings" /\ Len(settings) > 0
       \/ /\ SettingsUpdateStep'
          /\ shouldUpdateSubscriptionsOnSettingsChange
          /\ WatchedKeyChanged
       \/ /\ AckOnOpenHandle'
          /\ shouldUpdateSubscriptionsOnSettingsChange
          /\ Len(settings') > 0

\* C36: when the handler throws during a recomputation, the subscription
\* set is left as it was, the recomputation sends no SUBSCRIPTION_UPDATE
\* (a CONNECTION_ACK has made its one push before it), exactly one `error`
\* event is emitted and no exception reaches the caller.
ThrowingHandlerLeavesSubscriptions ==
    [][RecomputedWithThrowingHandler =>
         /\ subscriptions' = subscriptions
         /\ Count(sendLog', IsSubscriptionUpdate) = IF AckStep' THEN 1 ELSE 0
         /\ \A i \in DOMAIN sendLog' : sendLog'[i].msg.subscriptions = subscriptions
         /\ Count(emitted', IsError) = 1
         /\ lastOp'.threw = NoErr
         /\ ~lastOp'.escaped]_vars

\* a SETTINGS_UPDATE changed the watched key while the handler that throws
\* was installed and tags were subscribed: they still are
ThrowingHandlerRan ==
    /\ SettingsUpdateStep
    /\ subscriptionSettingsHandler = "throws"
    /\ shouldUpdateSubscriptionsOnSettingsChange
    /\ "mode" \in subscriptionUpdateTriggers
    /\ settings = S_mode1
    /\ subscriptions = {"head_position"}
    /\ HandleOpen
    /\ sendLog = <<>>
    /\ Count(emitted, IsError) = 1

====
